---- MODULE Spec2Model ----
(***************************************************************************)
(* Model of the Silent Downloads browser extension: the background service *)
(* worker (background.js), its Settings Store (chrome.storage.sync), its   *)
(* Log Store (chrome.storage.local errorLogs), the host's notifications    *)
(* and the message interface used by the popup and the options page.       *)
(*                                                                         *)
(* JavaScript strings are modelled as sequences of one-character strings,  *)
(* so that split, includes, toLowerCase and concatenation are computed.    *)
(* An object whose keys may be missing (a storage result, a request) is a  *)
(* function whose DOMAIN is the set of keys present.                       *)
(***************************************************************************)
EXTENDS Integers, Sequences, FiniteSets, TLC

\* ------------------------------------------------------------------------
\* String literals of the sources, as character sequences
\* ------------------------------------------------------------------------
UpperToLower ==
    (("A" :> "a") @@ ("B" :> "b") @@ ("C" :> "c") @@ ("D" :> "d") @@ ("E" :> "e") @@ ("F" :> "f")) @@
    (("G" :> "g") @@ ("H" :> "h") @@ ("I" :> "i") @@ ("J" :> "j") @@ ("K" :> "k") @@ ("L" :> "l")) @@
    (("M" :> "m") @@ ("N" :> "n") @@ ("O" :> "o") @@ ("P" :> "p") @@ ("Q" :> "q") @@ ("R" :> "r")) @@
    (("S" :> "s") @@ ("T" :> "t") @@ ("U" :> "u") @@ ("V" :> "v") @@ ("W" :> "w") @@ ("X" :> "x")) @@
    (("Y" :> "y") @@ ("Z" :> "z"))
KwDownload == <<"d", "o", "w", "n", "l", "o", "a", "d">>
KwSave == <<"s", "a", "v", "e">>
KwComplete == <<"c", "o", "m", "p", "l", "e", "t", "e">>
KwFinish == <<"f", "i", "n", "i", "s", "h">>
KwDownloaded == <<"d", "o", "w", "n", "l", "o", "a", "d", "e", "d">>
KwFinished == <<"f", "i", "n", "i", "s", "h", "e", "d">>
TitleDownloadComplete == <<"D", "o", "w", "n", "l", "o", "a", "d", " ", "C", "o", "m", "p", "l", "e", "t", "e">>
TitleMeetingReminder == <<"M", "e", "e", "t", "i", "n", "g", " ", "r", "e", "m", "i", "n", "d", "e", "r">>
TitleSaved == <<"F", "i", "l", "e", " ", "S", "A", "V", "E", "D">>
MsgTestDownload == <<"Y", "o", "u", "r", " ", "t", "e", "s", "t", " ", "d", "o", "w", "n", "l", "o", "a", "d", " ", "h", "a", "s", " ", "c", "o", "m", "p", "l", "e", "t", "e", "d", ".">>
MsgAtNoon == <<"S", "t", "a", "r", "t", "s", " ", "a", "t", " ", "n", "o", "o", "n">>
MsgFinishing == <<"F", "i", "n", "i", "s", "h", "i", "n", "g", " ", "u", "p">>
PathUnix == <<"/", "t", "m", "p", "/", "x", "/", "r", "e", "p", "o", "r", "t", ".", "p", "d", "f">>
PathWin == <<"C", ":", "\\", "x", "\\", "a", ".", "t", "x", "t">>
PathBare == <<"r", "e", "p", "o", "r", "t", ".", "p", "d", "f">>
PathMixed == <<"a", "\\", "b", "/", "c", ".", "t", "x", "t">>
MyDownloads == <<"M", "y", "D", "o", "w", "n", "l", "o", "a", "d", "s">>
TestDownloads == <<"T", "e", "s", "t", "D", "o", "w", "n", "l", "o", "a", "d", "s">>
Downloads == <<"D", "o", "w", "n", "l", "o", "a", "d", "s">>
MyDownloadsReportPdf == <<"M", "y", "D", "o", "w", "n", "l", "o", "a", "d", "s", "/", "r", "e", "p", "o", "r", "t", ".", "p", "d", "f">>
MsgDownloaded == <<"3", " ", "f", "i", "l", "e", "s", " ", "D", "o", "w", "n", "l", "o", "a", "d", "e", "d">>
TitleTaskFinished == <<"T", "a", "s", "k", " ", "F", "I", "N", "I", "S", "H", "E", "D">>

\* ------------------------------------------------------------------------
\* Bounds of the model
\* ------------------------------------------------------------------------
MaxDownloads == 2      \* downloads whose filename is determined in one run
MaxPending == 2        \* storage.sync operations in flight at once
MaxHostOps == 1        \* timers / notification enumerations in flight
MaxInfer == 1          \* default directory inferences in flight
MaxChanges == 1        \* storage.onChanged events not yet delivered
MaxLogCalls == 2       \* warn/error logMessage calls in one run
MaxRecords == 2        \* mutation records queued for one callback
MaxTimers == 2         \* timer ids of the page in use at once
MaxAdded == 2          \* nodes one mutation adds
MaxElements == 3       \* nodes in the page
TickMs == 10           \* the step of time, in ms

\* ------------------------------------------------------------------------
\* JavaScript string and object primitives
\* ------------------------------------------------------------------------
\* String.prototype.toLowerCase
toLowerCase(s) ==
    [i \in 1..Len(s) |-> IF s[i] \in DOMAIN UpperToLower THEN UpperToLower[s[i]] ELSE s[i]]

\* String.prototype.includes
includes(s, k) ==
    \E i \in 0..(Len(s) - Len(k)) : SubSeq(s, i + 1, i + Len(k)) = k

\* String.prototype.split with a one-character separator
RECURSIVE split(_, _)
split(s, sep) ==
    IF ~includes(s, <<sep>>)
    THEN <<s>>
    ELSE LET i == CHOOSE j \in 1..Len(s) :
                      s[j] = sep /\ \A k \in 1..(j - 1) : s[k] # sep
         IN  <<SubSeq(s, 1, i - 1)>> \o split(SubSeq(s, i + 1, Len(s)), sep)

\* Array.prototype.pop: the value returned (the last element)
pop(parts) == parts[Len(parts)]

\* The array left behind by Array.prototype.pop
popped(parts) == SubSeq(parts, 1, Len(parts) - 1)

\* Array.prototype.join
RECURSIVE join(_, _)
join(parts, sep) ==
    IF Len(parts) = 0 THEN <<>>
    ELSE IF Len(parts) = 1 THEN parts[1]
    ELSE parts[1] \o <<sep>> \o join(Tail(parts), sep)

\* obj.key is present (not undefined)
Has(obj, key) == key \in DOMAIN obj

\* TruthyBool taking any stored value for true
TruthyBool_AnyStored(obj, key) == key \in DOMAIN obj

\* JavaScript truthiness of obj.key for a boolean-valued key
TruthyBool(obj, key) == Has(obj, key) /\ obj[key] = TRUE

\* JavaScript truthiness of obj.key for a string-valued key
TruthyStr(obj, key) == Has(obj, key) /\ obj[key] # <<>>

\* NotFalse as plain truthiness (a missing key counts as false)
NotFalse_Truthy(obj, key) == key \in DOMAIN obj /\ obj[key] = TRUE

\* obj.key !== false
NotFalse(obj, key) == ~(Has(obj, key) /\ obj[key] = FALSE)

\* The object holding the keys of obj among keys (what storage.get(keys)
\* delivers, and an object literal whose undefined members are dropped)
Pick(obj, keys) == [k \in (DOMAIN obj) \cap keys |-> obj[k]]

\* chrome.storage set(items): the store after the write
Assign(store, items) ==
    [k \in (DOMAIN store) \cup (DOMAIN items) |->
        IF k \in DOMAIN items THEN items[k] ELSE store[k]]

NoKeys == [k \in {} |-> TRUE]

\* ------------------------------------------------------------------------
\* Inputs
\* ------------------------------------------------------------------------
BoolKeys == {"silentDownloads", "hideNotifications", "hideDownloadBar", "autoStart"}
SettingKeys == BoolKeys \cup {"defaultPath"}
RequestKeys == SettingKeys \cup {"conflictAction"}
ConflictActions == {"uniquify", "overwrite", "prompt"}

\* paths the host suggests for a download
HostPaths == {PathUnix, PathWin, PathBare, PathMixed}

\* download items handed to onDeterminingFilename
DownloadItems == {("filename" :> p) : p \in HostPaths} \cup {NoKeys}

\* directories a user types into the popup or the options page
UserPaths == {<<>>, MyDownloads}

DownloadIds == 1..MaxDownloads

\* popup.js: only silentDownloads and defaultPath
PopupRequests ==
    {("silentDownloads" :> sd) @@ ("defaultPath" :> dp) :
        sd \in BOOLEAN, dp \in UserPaths}

\* test-framework.js testDownloadInterception: only silentDownloads
InterceptionRequests == {("silentDownloads" :> TRUE)}

\* test-framework.js testSettingsPersistence
PersistenceRequests ==
    {("silentDownloads" :> TRUE) @@ ("defaultPath" :> TestDownloads) @@
     ("hideNotifications" :> TRUE) @@ ("hideDownloadBar" :> TRUE) @@
     ("autoStart" :> TRUE)}

\* options page: every field
OptionsRequests ==
    {("silentDownloads" :> sd) @@ ("defaultPath" :> dp) @@
     ("hideNotifications" :> hn) @@ ("hideDownloadBar" :> hb) @@
     ("autoStart" :> au) @@ ("conflictAction" :> ca) :
        sd \in BOOLEAN, dp \in UserPaths, hn \in BOOLEAN, hb \in BOOLEAN,
        au \in BOOLEAN, ca \in ConflictActions}

\* the saves that differ in what filename determination reads
\* (silentDownloads, defaultPath): the popup's and the interception test's,
\* and the options page's asking for another conflict policy
DetermineRequests ==
    PopupRequests \cup InterceptionRequests \cup
    {r \in OptionsRequests :
        /\ r["silentDownloads"] /\ r["defaultPath"] = MyDownloads
        /\ r["hideNotifications"] /\ r["hideDownloadBar"] /\ r["autoStart"]
        /\ r["conflictAction"] \in {"overwrite", "prompt"}}

\* the saves that differ in what the sweeps read (silentDownloads,
\* hideNotifications): the options page's with the other fields fixed, and
\* the interception test's, which leaves hideNotifications as stored
SweepRequests ==
    {r \in OptionsRequests :
        /\ r["defaultPath"] = <<>> /\ r["conflictAction"] = "uniquify"
        /\ r["hideDownloadBar"] /\ r["autoStart"]} \cup InterceptionRequests

\* the saves of the settings interface: the popup's, the tests', and the
\* options page's with checkbox values among which any two fields differ
SettingsRequests ==
    PopupRequests \cup InterceptionRequests \cup PersistenceRequests \cup
    {r \in OptionsRequests :
        /\ r["defaultPath"] = MyDownloads /\ r["conflictAction"] = "overwrite"
        /\ <<r["silentDownloads"], r["hideNotifications"], r["hideDownloadBar"],
              r["autoStart"]>> \in
                {<<TRUE, TRUE, TRUE, TRUE>>, <<FALSE, FALSE, FALSE, FALSE>>,
                 <<TRUE, FALSE, TRUE, FALSE>>, <<TRUE, TRUE, FALSE, FALSE>>}}

\* host notifications: id -> content (title or message may be missing or empty)
NotifPool ==
    ("n1" :> (("title" :> TitleDownloadComplete) @@ ("message" :> MsgTestDownload))) @@
    ("n2" :> (("title" :> TitleMeetingReminder) @@ ("message" :> MsgAtNoon))) @@
    ("n3" :> ("title" :> TitleSaved)) @@
    ("n4" :> ("message" :> MsgFinishing)) @@
    ("n5" :> (("title" :> <<>>) @@ ("message" :> <<>>))) @@
    ("n6" :> (("title" :> TitleMeetingReminder) @@ ("message" :> MsgDownloaded))) @@
    ("n7" :> (("title" :> TitleTaskFinished) @@ ("message" :> MsgAtNoon))) @@
    ("n8" :> NoKeys)

NotifIds == DOMAIN NotifPool

\* the notifications shown while settings change: one the test page creates,
\* one unrelated to downloads, one with a keyword in capitals and no message
SweepNotifIds == {"n1", "n2", "n3"}

\* the notification testNotificationHiding creates, and an unrelated one
HidingNotifIds == {"n1", "n2"}

\* downloadDelta of onChanged: state may be missing
DownloadStates == {"in_progress", "interrupted", "complete"}
DownloadDeltas == {("state" :> c) : c \in DownloadStates} \cup {NoKeys}

\* actions of messages the listener has no branch for
OtherActions == {"getStatus", "resetSettings"}

\* results of chrome.downloads.search({limit: 1}) and its failure
SearchOutcomes ==
    {[ok |-> FALSE, items |-> <<>>], [ok |-> TRUE, items |-> <<>>]} \cup
    {[ok |-> TRUE, items |-> <<("filename" :> p)>>] : p \in HostPaths \cup {<<>>}}

\* ------------------------------------------------------------------------
\* Pure parts of background.js
\* ------------------------------------------------------------------------
\* the object written on install
InstallDefaults ==
    ("silentDownloads" :> TRUE) @@ ("defaultPath" :> <<>>) @@
    ("hideNotifications" :> TRUE) @@ ("hideDownloadBar" :> TRUE) @@
    ("autoStart" :> TRUE)

\* suggest({}) and suggest({filename, conflictAction})
EmptySuggestion == [hasFilename |-> FALSE, filename |-> <<>>, conflictAction |-> "none"]
PathSuggestion(targetPath) ==
    [hasFilename |-> TRUE, filename |-> targetPath, conflictAction |-> "uniquify"]

\* pathSeparator with the separator fixed to '/'
pathSeparator_AlwaysSlash(name) == "/"

\* pathSeparator = name.includes('/') ? '/' : '\\'
pathSeparator(name) == IF includes(name, <<"/">>) THEN "/" ELSE "\\"

\* customPath without the in-memory directory
customPath_StoredOnly(result, ddp) ==
    IF "defaultPath" \in DOMAIN result THEN result["defaultPath"] ELSE <<>>

\* customPath = result.defaultPath || defaultDownloadPath
customPath(result, ddp) ==
    IF TruthyStr(result, "defaultPath") THEN result["defaultPath"] ELSE ddp

\* targetPath = customPath ? `${customPath}${pathSeparator}${filename}` : filename
targetPath(result, ddp, name) ==
    LET sep == pathSeparator(name)
        filename == pop(split(name, sep))
        cp == customPath(result, ddp)
    IN  IF cp # <<>> THEN cp \o <<sep>> \o filename ELSE filename

\* the body of the try block of the filename-determination callback throws:
\* result is undefined (failed read), or the item has no filename to split
DetermineThrows(readOk, result, item) ==
    \/ ~readOk
    \/ TruthyBool(result, "silentDownloads") /\ ~Has(item, "filename")

\* DetermineSuggestion with a failed read treated as silent mode with defaults
DetermineSuggestion_FailedReadSilent(readOk, result, item, ddp) ==
    IF Has(item, "filename") /\ (~readOk \/ (Has(result, "silentDownloads") /\ result["silentDownloads"]))
    THEN PathSuggestion(targetPath(result, ddp, item["filename"]))
    ELSE EmptySuggestion

\* the argument of the one suggest call of the filename-determination callback
DetermineSuggestion(readOk, result, item, ddp) ==
    IF DetermineThrows(readOk, result, item) THEN EmptySuggestion
    ELSE IF TruthyBool(result, "silentDownloads")
         THEN PathSuggestion(targetPath(result, ddp, item["filename"]))
         ELSE EmptySuggestion

\* the try block of the filename-determination callback reaches one of its
\* two suggest calls (both come after every statement that can throw)
TrySuggests(readOk, result, item) == ~DetermineThrows(readOk, result, item)

\* CatchSuggests with a catch block that only logs
CatchSuggests_OnlyLogs(readOk, result, item) == FALSE

\* the catch block, entered when the try block throws, calls suggest({})
CatchSuggests(readOk, result, item) == DetermineThrows(readOk, result, item)

\* what the settings read of onDeterminingFilename delivers
DetermineSettings(store) == Pick(store, {"silentDownloads", "defaultPath"})

\* SweepSettings delivering the stored hideDownloadBar as hideNotifications
SweepSettings_ReadsDownloadBar(store) ==
    [k \in {key \in {"silentDownloads", "hideNotifications"} :
                IF key = "hideNotifications" THEN "hideDownloadBar" \in DOMAIN store
                ELSE key \in DOMAIN store} |->
        IF k = "hideNotifications" THEN store["hideDownloadBar"] ELSE store[k]]

\* what the settings read of onCreated and of onChanged delivers
SweepSettings(store) == Pick(store, {"silentDownloads", "hideNotifications"})

\* SweepEnabled without the hideNotifications test
SweepEnabled_SilentOnly(result) ==
    Has(result, "silentDownloads") /\ result["silentDownloads"] = TRUE

\* result.silentDownloads && result.hideNotifications !== false
SweepEnabled(result) ==
    TruthyBool(result, "silentDownloads") /\ NotFalse(result, "hideNotifications")

downloadKeywords == <<KwDownload, KwSave, KwComplete, KwFinish>>

\* someKeyword without toLowerCase
someKeyword_CaseSensitive(text) ==
    \E i \in 1..Len(downloadKeywords) : includes(text, downloadKeywords[i])

\* downloadKeywords.some(keyword => text.toLowerCase().includes(keyword))
someKeyword(text) ==
    \E i \in 1..Len(downloadKeywords) : includes(toLowerCase(text), downloadKeywords[i])

titleMatch(notification) ==
    TruthyStr(notification, "title") /\ someKeyword(notification["title"])

messageMatch(notification) ==
    TruthyStr(notification, "message") /\ someKeyword(notification["message"])

\* the notifications the creation sweep clears out of those enumerated
CreatedSweepClears(enumerated) ==
    {id \in enumerated : titleMatch(NotifPool[id]) \/ messageMatch(NotifPool[id])}

\* the notifications the completion sweep clears out of those enumerated
ChangedSweepClears(enumerated) == enumerated

\* IsComplete taking any state change for a completion
IsComplete_AnyState(delta) == "state" \in DOMAIN delta

\* downloadDelta.state?.current === 'complete'
IsComplete(delta) == Has(delta, "state") /\ delta["state"] = "complete"

\* the getSettings response when the read succeeded
SettingsResponse(result, ddp) ==
    ("silentDownloads" :> NotFalse(result, "silentDownloads")) @@
    ("defaultPath" :> (IF Has(result, "defaultPath") THEN result["defaultPath"] ELSE ddp)) @@
    ("hideNotifications" :> NotFalse(result, "hideNotifications")) @@
    ("hideDownloadBar" :> NotFalse(result, "hideDownloadBar")) @@
    ("autoStart" :> NotFalse(result, "autoStart"))

\* FallbackResponse without the error field
FallbackResponse_NoError(ddp) ==
    ("silentDownloads" :> TRUE) @@ ("defaultPath" :> ddp) @@
    ("hideNotifications" :> TRUE) @@ ("hideDownloadBar" :> TRUE) @@
    ("autoStart" :> TRUE)

\* the getSettings response when the read failed
FallbackResponse(ddp) ==
    ("error" :> TRUE) @@
    ("silentDownloads" :> TRUE) @@ ("defaultPath" :> ddp) @@
    ("hideNotifications" :> TRUE) @@ ("hideDownloadBar" :> TRUE) @@
    ("autoStart" :> TRUE)

\* settingsToSave writing the install default for a member the request does
\* not carry
settingsToSave_FillsDefaults(request) ==
    [k \in SettingKeys |->
        IF k \in DOMAIN request THEN request[k] ELSE InstallDefaults[k]]

\* settingsToSave: the five members read off the request; a member the
\* request does not carry is undefined and is not written by the store
settingsToSave(request) == Pick(request, SettingKeys)

\* the onMessage listener returns true (the channel stays open for the
\* response) in each of its four branches, and undefined for any other action
KeepsChannelOpen(action) ==
    action \in {"getSettings", "saveSettings", "getLogs", "clearLogs"}

\* updateBadge
BadgeText(isEnabled) == IF isEnabled THEN "ON" ELSE ""

\* DirectoryOf without pathParts.pop()
DirectoryOf_WholePath(name) == name

\* the directory part setDefaultDownloadPath takes from a recent download
DirectoryOf(name) ==
    LET sep == pathSeparator(name)
    IN  join(popped(split(name, sep)), sep)

\* ------------------------------------------------------------------------
\* content.js: string literals
\* ------------------------------------------------------------------------
\* the selectors' names, the keywords and the page's own names and texts
Lit ==
    [kwSaved |-> <<"s", "a", "v", "e", "d">>,
     kwDownloading |-> <<"d", "o", "w", "n", "l", "o", "a", "d", "i", "n", "g">>,
     kwFile |-> <<"f", "i", "l", "e">>,
     kwZip |-> <<".", "z", "i", "p">>,
     kwPdf |-> <<".", "p", "d", "f">>,
     kwExe |-> <<".", "e", "x", "e">>,
     kwDmg |-> <<".", "d", "m", "g">>,
     kwNotification |-> <<"n", "o", "t", "i", "f", "i", "c", "a", "t", "i", "o", "n">>,
     kwToast |-> <<"t", "o", "a", "s", "t">>,
     strDownloadShelf |-> <<"d", "o", "w", "n", "l", "o", "a", "d", "-", "s", "h", "e", "l", "f">>,
     strDownloadsManager |-> <<"d", "o", "w", "n", "l", "o", "a", "d", "s", "-", "m", "a", "n", "a", "g", "e", "r">>,
     strDownloadsManagerCamel |-> <<"d", "o", "w", "n", "l", "o", "a", "d", "s", "M", "a", "n", "a", "g", "e", "r">>,
     strDownloadItem |-> <<"d", "o", "w", "n", "l", "o", "a", "d", "-", "i", "t", "e", "m">>,
     strDownloadsPanel |-> <<"d", "o", "w", "n", "l", "o", "a", "d", "s", "P", "a", "n", "e", "l">>,
     strDownloadPanel |-> <<"d", "o", "w", "n", "l", "o", "a", "d", "-", "p", "a", "n", "e", "l">>,
     strDownloadProgressCamel |-> <<"d", "o", "w", "n", "l", "o", "a", "d", "P", "r", "o", "g", "r", "e", "s", "s">>,
     strDownloadProgress |-> <<"d", "o", "w", "n", "l", "o", "a", "d", "-", "p", "r", "o", "g", "r", "e", "s", "s">>,
     strDownloadManager |-> <<"d", "o", "w", "n", "l", "o", "a", "d", "-", "m", "a", "n", "a", "g", "e", "r">>,
     strDownloadToolbar |-> <<"d", "o", "w", "n", "l", "o", "a", "d", "-", "t", "o", "o", "l", "b", "a", "r">>,
     strDownloadShelfCamel |-> <<"D", "o", "w", "n", "l", "o", "a", "d", "S", "h", "e", "l", "f">>,
     strDownloadsHistory |-> <<"d", "o", "w", "n", "l", "o", "a", "d", "s", "H", "i", "s", "t", "o", "r", "y">>,
     strDownloadNotification |-> <<"d", "o", "w", "n", "l", "o", "a", "d", "-", "n", "o", "t", "i", "f", "i", "c", "a", "t", "i", "o", "n">>,
     strDownloadComplete |-> <<"d", "o", "w", "n", "l", "o", "a", "d", "-", "c", "o", "m", "p", "l", "e", "t", "e">>,
     strDownloadToast |-> <<"d", "o", "w", "n", "l", "o", "a", "d", "-", "t", "o", "a", "s", "t">>,
     strDownloadBubble |-> <<"d", "o", "w", "n", "l", "o", "a", "d", "-", "b", "u", "b", "b", "l", "e">>,
     strDownloadButton |-> <<"d", "o", "w", "n", "l", "o", "a", "d", "-", "b", "u", "t", "t", "o", "n">>,
     strDownloadLink |-> <<"d", "o", "w", "n", "l", "o", "a", "d", "-", "l", "i", "n", "k">>,
     strDownloadable |-> <<"d", "o", "w", "n", "l", "o", "a", "d", "a", "b", "l", "e">>,
     clsDownloadableContent |-> <<"d", "o", "w", "n", "l", "o", "a", "d", "a", "b", "l", "e", "-", "c", "o", "n", "t", "e", "n", "t">>,
     clsArticle |-> <<"a", "r", "t", "i", "c", "l", "e">>,
     clsWrapper |-> <<"w", "r", "a", "p", "p", "e", "r">>,
     clsNav |-> <<"n", "a", "v">>,
     clsDownloadShelfUpper |-> <<"D", "o", "w", "n", "l", "o", "a", "d", "-", "S", "h", "e", "l", "f">>,
     clsToastInfo |-> <<"t", "o", "a", "s", "t", " ", "t", "o", "a", "s", "t", "-", "i", "n", "f", "o">>,
     clsDownloadIconUpper |-> <<"D", "o", "w", "n", "l", "o", "a", "d", "-", "I", "c", "o", "n">>,
     idDownloadTitle |-> <<"d", "o", "w", "n", "l", "o", "a", "d", "-", "t", "i", "t", "l", "e">>,
     idDownloadArea |-> <<"d", "o", "w", "n", "l", "o", "a", "d", "-", "a", "r", "e", "a">>,
     textFileSaved |-> <<"F", "i", "l", "e", " ", "s", "a", "v", "e", "d">>,
     textInvoicePdf |-> <<"I", "n", "v", "o", "i", "c", "e", ".", "P", "D", "F", " ", "i", "s", " ", "r", "e", "a", "d", "y">>]

\* ------------------------------------------------------------------------
\* content.js: the nodes a page adds, and the selectors
\* ------------------------------------------------------------------------
\* the delay of the debounced hide pass, in ms
HideDelay == 50

\* a div without attributes; labelledby is aria-labelledby, live is aria-live,
\* text is textContent and inner lists the elements of the node's subtree
Div ==
    [nodeType |-> 1, tag |-> "div", className |-> <<>>, id |-> <<>>, role |-> "",
     labelledby |-> <<>>, live |-> <<>>, text |-> <<>>, inner |-> <<>>]

\* the nodes pages add: download UI of a browser, controls that start a
\* download, notifications with and without download text, unrelated content
NodePool ==
    ("shelf" :> [Div EXCEPT !.className = Lit.strDownloadShelf]) @@
    ("shelfUpper" :> [Div EXCEPT !.className = Lit.clsDownloadShelfUpper]) @@
    ("item" :> [Div EXCEPT !.tag = "downloads-item"]) @@
    ("dialog" :> [Div EXCEPT !.role = "dialog", !.labelledby = Lit.idDownloadTitle,
                             !.text = TitleDownloadComplete]) @@
    ("content" :> [Div EXCEPT !.className = Lit.clsDownloadableContent]) @@
    ("area" :> [Div EXCEPT !.className = Lit.clsDownloadableContent, !.id = Lit.idDownloadArea]) @@
    ("button" :> [Div EXCEPT !.tag = "button", !.className = Lit.strDownloadButton]) @@
    ("anchor" :> [Div EXCEPT !.tag = "a", !.className = Lit.clsNav, !.text = MsgAtNoon]) @@
    ("bubble" :> [Div EXCEPT !.tag = "a", !.className = Lit.strDownloadBubble]) @@
    ("toast" :> [Div EXCEPT !.className = Lit.clsToastInfo, !.text = Lit.textFileSaved]) @@
    ("stale" :> [Div EXCEPT !.className = Lit.kwToast, !.text = TitleTaskFinished]) @@
    ("alert" :> [Div EXCEPT !.role = "alert", !.text = TitleDownloadComplete]) @@
    ("reminder" :> [Div EXCEPT !.role = "alert", !.text = TitleMeetingReminder]) @@
    ("wrapper" :> [Div EXCEPT !.className = Lit.clsWrapper,
                              !.inner = <<[Div EXCEPT !.tag = "span",
                                                      !.className = Lit.strDownloadItem]>>]) @@
    ("icon" :> [Div EXCEPT !.className = Lit.clsWrapper,
                           !.inner = <<[Div EXCEPT !.tag = "span",
                                                   !.className = Lit.clsDownloadIconUpper]>>]) @@
    ("article" :> [Div EXCEPT !.tag = "p", !.className = Lit.clsArticle,
                              !.text = TitleMeetingReminder]) @@
    ("text" :> [Div EXCEPT !.nodeType = 3, !.tag = "#text", !.text = TitleDownloadComplete])

NodeIds == DOMAIN NodePool

\* the selector .name: name is one of the element's class names
HasClass(element, name) ==
    \E i \in 1..Len(split(element.className, " ")) : split(element.className, " ")[i] = name

\* the selector [attr*="value" i] on the value of the attribute
ContainsIgnoringCase(attr, value) == includes(toLowerCase(attr), toLowerCase(value))

\* element matches downloadSelectors.join(',')
MatchesDownloadSelectors(element) ==
    \/ includes(element.className, Lit.strDownloadShelf)
    \/ includes(element.id, Lit.strDownloadShelf)
    \/ element.tag = "downloads-manager"
    \/ element.id = Lit.strDownloadsManager
    \/ element.id = Lit.strDownloadsManagerCamel
    \/ element.tag = "downloads-item"
    \/ HasClass(element, Lit.strDownloadItem)
    \/ element.id = Lit.strDownloadsPanel
    \/ element.id = Lit.strDownloadPanel
    \/ HasClass(element, Lit.strDownloadProgressCamel)
    \/ HasClass(element, Lit.strDownloadProgress)
    \/ element.id = Lit.strDownloadManager
    \/ HasClass(element, Lit.strDownloadManager)
    \/ (element.role = "dialog" /\ ContainsIgnoringCase(element.labelledby, KwDownload))
    \/ (element.role = "alertdialog" /\ ContainsIgnoringCase(element.labelledby, KwDownload))

\* element matches '[class*="notification"], [class*="toast"], [role="alert"]'
MatchesNotificationSelectors(element) ==
    \/ includes(element.className, Lit.kwNotification)
    \/ includes(element.className, Lit.kwToast)
    \/ element.role = "alert"

\* downloadKeywords of hideDownloadElements
hideKeywords == <<KwDownload, KwDownloaded, KwComplete, Lit.kwSaved, KwFinished>>

\* the hide pass sets the inline style of the element to hidden
HidePassHides(element) ==
    /\ element.nodeType = 1
    /\ \/ MatchesDownloadSelectors(element)
       \/ /\ MatchesNotificationSelectors(element)
          /\ \E i \in 1..Len(hideKeywords) :
                 includes(toLowerCase(element.text), hideKeywords[i])

\* the enumerated selectors of the injected rule: the download UI of Chrome,
\* Firefox and Edge, and the generic download notifications
MatchesListedRules(element) ==
    \/ element.tag \in {"downloads-manager", "downloads-toolbar", "downloads-item"}
    \/ element.id \in {Lit.strDownloadsManager, Lit.strDownloadToolbar, Lit.strDownloadShelf,
                       Lit.strDownloadsPanel, Lit.strDownloadPanel, Lit.strDownloadsHistory,
                       Lit.strDownloadManager}
    \/ \E name \in {Lit.strDownloadToolbar, Lit.strDownloadShelf, Lit.strDownloadProgressCamel,
                    Lit.strDownloadProgress, Lit.strDownloadManager, Lit.strDownloadNotification,
                    Lit.strDownloadComplete, Lit.strDownloadToast, Lit.strDownloadBubble} :
           HasClass(element, name)
    \/ ContainsIgnoringCase(element.className, Lit.strDownloadShelfCamel)
    \/ ContainsIgnoringCase(element.id, Lit.strDownloadShelfCamel)

\* the status message selectors: [aria-live]:has(*[class*="download" i]) and
\* [aria-live*="download" i]. The three :has(span:is(:contains(...))) selectors
\* match no element: :contains is no selector, and :is drops what it cannot parse
MatchesStatusRules(element) ==
    \/ /\ element.live # <<>>
       /\ \E i \in 1..Len(element.inner) :
              ContainsIgnoringCase(element.inner[i].className, KwDownload)
    \/ ContainsIgnoringCase(element.live, KwDownload)

\* the generic rule on one attribute (class or id) with its exclusions
GenericRule(attr, tag) ==
    /\ ContainsIgnoringCase(attr, KwDownload)
    /\ ~ContainsIgnoringCase(attr, Lit.strDownloadButton)
    /\ ~ContainsIgnoringCase(attr, Lit.strDownloadLink)
    /\ ~ContainsIgnoringCase(attr, Lit.strDownloadable)
    /\ tag \notin {"a", "button"}

\* the injected rule, when the host applies it, hides the element
StyleHides(element) ==
    /\ element.nodeType = 1
    /\ \/ MatchesListedRules(element)
       \/ MatchesStatusRules(element)
       \/ GenericRule(element.className, element.tag)
       \/ GenericRule(element.id, element.tag)

\* downloadKeywords of the MutationObserver callback
observerKeywords == <<KwDownload, KwDownloaded, KwComplete, Lit.kwSaved>>

textHasKeywords(node) ==
    \E i \in 1..Len(observerKeywords) : includes(toLowerCase(node.text), observerKeywords[i])

\* the checks of the callback on the class, id, role and text of an added node
OwnCheck_NamesOnly(node) ==
    \/ includes(toLowerCase(node.className), KwDownload)
    \/ includes(toLowerCase(node.id), KwDownload)

OwnCheck(node) ==
    \/ includes(toLowerCase(node.className), KwDownload)
    \/ includes(toLowerCase(node.id), KwDownload)
    \/ (includes(toLowerCase(node.className), Lit.kwNotification) /\ textHasKeywords(node))
    \/ (includes(toLowerCase(node.className), Lit.kwToast) /\ textHasKeywords(node))
    \/ (node.role = "alert" /\ textHasKeywords(node))

\* element.querySelectorAll('[class*="download"], [id*="download"]') is not empty
SubtreeCheck(node) ==
    \E i \in 1..Len(node.inner) :
        \/ includes(node.inner[i].className, KwDownload)
        \/ includes(node.inner[i].id, KwDownload)

\* the nodes of the pool that set shouldHide: elements (nodeType 1) that pass
\* the checks on the node or the one on its subtree
Classified ==
    {n \in NodeIds : /\ NodePool[n].nodeType = 1
                     /\ (OwnCheck(NodePool[n]) \/ SubtreeCheck(NodePool[n]))}

\* shouldHide after the loops over mutations and their addedNodes; a mutation
\* is the set of nodes it added
shouldHide(mutations) ==
    \E m \in 1..Len(mutations) : \E n \in mutations[m] : n \in Classified

\* ------------------------------------------------------------------------
\* content.js: the window.Notification override
\* ------------------------------------------------------------------------
\* JavaScript values passed to the constructor
Undefined == [type |-> "undefined"]
Str(s) == [type |-> "string", value |-> s]
Num(n) == [type |-> "number", number |-> n]
Obj(body) == [type |-> "object", body |-> body]

\* truthiness of a value
Truthy(v) ==
    CASE v.type = "undefined" -> FALSE
      [] v.type = "string" -> v.value # <<>>
      [] v.type = "number" -> v.number # 0
      [] OTHER -> TRUE

\* downloadKeywords of isDownloadNotification
notificationKeywords ==
    <<KwDownload, KwDownloaded, Lit.kwDownloading, KwComplete, Lit.kwSaved, KwFinished,
      Lit.kwFile, Lit.kwZip, Lit.kwPdf, Lit.kwExe, Lit.kwDmg>>

\* value && typeof value === 'string' && some keyword is in its lower case
KeywordString(v) ==
    /\ Truthy(v)
    /\ v.type = "string"
    /\ \E i \in 1..Len(notificationKeywords) :
           includes(toLowerCase(v.value), notificationKeywords[i])

\* isDownloadNotification looking at the title only
isDownloadNotification_TitleOnly(title, options) == KeywordString(title)

isDownloadNotification(title, options) ==
    \/ KeywordString(title)
    \/ (Truthy(options) /\ options.type = "object" /\ KeywordString(options.body))

\* window.Notification(title, options): what it returns, and the calls of the
\* original constructor it makes
NotificationOverride(title, options) ==
    IF isDownloadNotification(title, options)
    THEN [returned |-> "noop", constructed |-> <<>>]
    ELSE [returned |-> "real",
          constructed |-> <<[title |-> title, options |-> options]>>]

\* ------------------------------------------------------------------------
\* State
\* ------------------------------------------------------------------------
VARIABLES
    defaultDownloadPath, \* the module variable of background.js
    sync,                \* chrome.storage.sync: the Settings Store
    syncQ,               \* storage.sync operations issued and not yet completed
    changeQ,             \* storage.onChanged events not yet delivered
    badge,               \* the badge text
    errorLogs,           \* chrome.storage.local errorLogs: the Log Store
    localQ,              \* storage.local operations issued and not yet completed
    logCalls,            \* warn/error logMessage calls so far
    notifications,       \* ids of the active host notifications
    timers,              \* setTimeout callbacks not yet run
    notifQ,              \* notifications.getAll calls not yet completed
    infer,               \* setDefaultDownloadPath calls suspended at an await
    dl,                  \* per download: the filename-determination protocol
    ran,                 \* the callback that has just run: what it read, what it
                         \* called into the host and whether an exception escaped
                         \* it; cleared on return to the event loop
    \* content.js, in one page
    page,                \* the document: "loading", "ready" or "unloaded"
    dom,                 \* per element of the page: whether an inline style of
                         \* the hide pass hides it, whether the observer recorded
                         \* its insertion and, for an element the pass is to
                         \* hide, the time since its insertion
    style,               \* the injected style element: "waiting" for document.head,
                         \* "applied", or "dropped" by the host's style parser
    observer,            \* the MutationObserver: "watching", "failed", "disconnected"
    records,             \* mutation records queued for the observer's callback
    hideTimeout,         \* the timer id held by hideTimeout (0: null)
    pageTimers           \* the page's setTimeout(hideDownloadElements) timers not
                         \* yet run: their id and the delay left

contentVars == <<page, dom, style, observer, records, hideTimeout, pageTimers>>

vars ==
    <<defaultDownloadPath, sync, syncQ, changeQ, badge, errorLogs, localQ, logCalls,
      notifications, timers, notifQ, infer, dl, ran, contentVars>>

settingsVars == <<sync, changeQ>>
logVars == <<errorLogs, localQ, logCalls>>

\* no callback is running: control is with the host's event loop
Idle == [kind |-> "none"]

\* no page is open: the content script is not running
NoPage ==
    /\ page = "unloaded"
    /\ dom = [e \in {} |-> [inline |-> FALSE, age |-> 0, observed |-> FALSE]]
    /\ style = "waiting"
    /\ observer = "disconnected"
    /\ records = <<>>
    /\ hideTimeout = 0
    /\ pageTimers = {}

Init ==
    /\ defaultDownloadPath = <<>>
    /\ sync = NoKeys
    /\ syncQ = <<[kind |-> "badge"]>>
    /\ changeQ = <<>>
    /\ badge = ""
    /\ errorLogs = <<>>
    /\ localQ = <<>>
    /\ logCalls = 0
    /\ notifications = {}
    /\ timers = <<>>
    /\ notifQ = <<>>
    /\ infer = [search |-> 0, platform |-> 0]
    /\ dl = [d \in DownloadIds |-> [pc |-> "idle", acked |-> FALSE, nSuggest |-> 0]]
    /\ ran = Idle
    /\ NoPage

\* the callback that ran returns to the event loop
ReturnToEventLoop ==
    /\ ran # Idle
    /\ ran' = Idle
    /\ UNCHANGED contentVars
    /\ UNCHANGED <<defaultDownloadPath, sync, syncQ, changeQ, badge, errorLogs, localQ,
                   logCalls, notifications, timers, notifQ, infer, dl>>

\* ------------------------------------------------------------------------
\* logMessage
\* ------------------------------------------------------------------------
\* logMessage storing an entry whatever the level
logMessage_AnyLevel(level, message) ==
    /\ logCalls < MaxLogCalls
    /\ logCalls' = logCalls + 1
    /\ localQ' = Append(localQ, [kind |-> "logGet",
                                 entry |-> [n |-> logCalls + 1, level |-> level]])
    /\ UNCHANGED errorLogs

\* logMessage(level, message): console output, and for warn/error a read of
\* errorLogs is issued whose callback appends the entry. Of the entry
\* {timestamp, level, message, data} the model keeps the level and, for the
\* timestamp, the number of the call; message and data are stored as given.
logMessage(level, message) ==
    IF level \in {"error", "warn"}
    THEN /\ logCalls < MaxLogCalls
         /\ logCalls' = logCalls + 1
         /\ localQ' = Append(localQ, [kind |-> "logGet",
                                      entry |-> [n |-> logCalls + 1, level |-> level]])
         /\ UNCHANGED errorLogs
    ELSE UNCHANGED logVars

LogCap == 50

\* AppendCapped never evicting
AppendCapped_NoShift(logs, entry) == Append(logs, entry)

\* logs.push(entry); if (logs.length > 50) logs.shift()
AppendCapped(logs, entry) ==
    LET pushed == Append(logs, entry)
    IN  IF Len(pushed) > LogCap THEN Tail(pushed) ELSE pushed

\* the callback of the errorLogs read of logMessage: push, shift, issue the
\* write. When the read failed the host passes no result, result.errorLogs
\* throws and nothing is written.
LogGetCallback(ok) ==
    /\ ran = Idle
    /\ localQ # <<>>
    /\ Head(localQ).kind = "logGet"
    /\ localQ' = IF ok
                 THEN Append(Tail(localQ),
                             [kind |-> "logSet",
                              logs |-> AppendCapped(errorLogs, Head(localQ).entry)])
                 ELSE Tail(localQ)
    /\ UNCHANGED contentVars
    /\ UNCHANGED <<defaultDownloadPath, sync, syncQ, changeQ, badge, errorLogs, logCalls,
                   notifications, timers, notifQ, infer, dl, ran>>

\* the write of errorLogs issued by logMessage is applied
LogSetApplied ==
    /\ ran = Idle
    /\ localQ # <<>>
    /\ Head(localQ).kind = "logSet"
    /\ errorLogs' = Head(localQ).logs
    /\ localQ' = Tail(localQ)
    /\ UNCHANGED contentVars
    /\ UNCHANGED <<defaultDownloadPath, sync, syncQ, changeQ, badge, logCalls,
                   notifications, timers, notifQ, infer, dl, ran>>

\* ------------------------------------------------------------------------
\* Settings Store writes
\* ------------------------------------------------------------------------
\* the operations still queued once the head has completed; after a write,
\* a queued getSettings read no longer follows the latest write's answer
Rest(q, wrote) ==
    [i \in 1..(Len(q) - 1) |->
        IF wrote /\ q[i + 1].kind = "getSettings"
        THEN [q[i + 1] EXCEPT !.fresh = FALSE]
        ELSE q[i + 1]]

\* a write of items is applied: the store, and the change event for
\* silentDownloads (delivered only when its value changes)
ApplyWrite(items) ==
    /\ sync' = Assign(sync, items)
    /\ IF /\ Has(items, "silentDownloads")
          /\ ~(Has(sync, "silentDownloads")
               /\ sync["silentDownloads"] = items["silentDownloads"])
       THEN /\ Len(changeQ) < MaxChanges
            /\ changeQ' = Append(changeQ, [newValue |-> items["silentDownloads"]])
       ELSE UNCHANGED changeQ

\* ------------------------------------------------------------------------
\* Install, session start, default directory inference, badge
\* ------------------------------------------------------------------------
\* chrome.runtime.onInstalled: write the defaults, start the inference
OnInstalled ==
    /\ ran = Idle
    /\ Len(syncQ) < MaxPending
    /\ infer.search + infer.platform < MaxInfer
    /\ syncQ' = Append(syncQ, [kind |-> "installSet"])
    /\ infer' = [infer EXCEPT !.search = @ + 1]
    /\ UNCHANGED contentVars
    /\ UNCHANGED <<defaultDownloadPath, sync, changeQ, badge, errorLogs, localQ, logCalls,
                   notifications, timers, notifQ, dl, ran>>

\* the callback of the install write
InstallSetCallback(ok) ==
    /\ ran = Idle
    /\ syncQ # <<>>
    /\ Head(syncQ).kind = "installSet"
    /\ syncQ' = Rest(syncQ, ok)
    /\ IF ok
       THEN /\ ApplyWrite(InstallDefaults)
            /\ logMessage("info", "Initial preferences set successfully")
       ELSE /\ logMessage("error", "Failed to set initial preferences")
            /\ UNCHANGED settingsVars
    /\ UNCHANGED contentVars
    /\ UNCHANGED <<defaultDownloadPath, badge, notifications, timers, notifQ, infer, dl,
                   ran>>

\* chrome.runtime.onStartup, both listeners: start the inference, read
\* silentDownloads for the badge
OnStartup ==
    /\ ran = Idle
    /\ Len(syncQ) < MaxPending
    /\ infer.search + infer.platform < MaxInfer
    /\ syncQ' = Append(syncQ, [kind |-> "badge"])
    /\ infer' = [infer EXCEPT !.search = @ + 1]
    /\ UNCHANGED contentVars
    /\ UNCHANGED <<defaultDownloadPath, sync, changeQ, badge, errorLogs, localQ, logCalls,
                   notifications, timers, notifQ, dl, ran>>

\* recentDownloads.length > 0 && recentDownloads[0].filename
UsableDownload(outcome) ==
    outcome.ok /\ Len(outcome.items) > 0 /\ TruthyStr(outcome.items[1], "filename")

\* setDefaultDownloadPath resumes after downloads.search: the search was
\* rejected (outer catch), or found a download with a filename (return), or
\* the platform lookup is awaited
SearchResolved(outcome) ==
    /\ ran = Idle
    /\ infer.search > 0
    /\ IF ~outcome.ok
       THEN /\ defaultDownloadPath' = Downloads
            /\ infer' = [infer EXCEPT !.search = @ - 1]
            /\ ran' = [kind |-> "inference", stage |-> "search", finished |-> TRUE,
                       outcome |-> outcome, level |-> "error", escaped |-> FALSE]
            /\ logMessage("error", "Error determining download path")
       ELSE IF UsableDownload(outcome)
       THEN /\ defaultDownloadPath' = DirectoryOf(outcome.items[1]["filename"])
            /\ infer' = [infer EXCEPT !.search = @ - 1]
            /\ ran' = [kind |-> "inference", stage |-> "search", finished |-> TRUE,
                       outcome |-> outcome, level |-> "info", escaped |-> FALSE]
            /\ logMessage("info", "Using path from recent download")
       ELSE /\ infer' = [search |-> infer.search - 1, platform |-> infer.platform + 1]
            /\ ran' = [kind |-> "inference", stage |-> "search", finished |-> FALSE,
                       outcome |-> outcome, level |-> "none", escaped |-> FALSE]
            /\ UNCHANGED <<defaultDownloadPath, logVars>>
    /\ UNCHANGED contentVars
    /\ UNCHANGED <<sync, syncQ, changeQ, badge, notifications, timers, notifQ, dl>>

\* setDefaultDownloadPath resumes after runtime.getPlatformInfo: 'Downloads'
\* for every platform, and in the inner catch when the lookup is rejected
PlatformResolved(ok) ==
    /\ ran = Idle
    /\ infer.platform > 0
    /\ infer' = [infer EXCEPT !.platform = @ - 1]
    /\ defaultDownloadPath' = Downloads
    /\ ran' = [kind |-> "inference", stage |-> "platform", finished |-> TRUE,
               lookupOk |-> ok, level |-> IF ok THEN "info" ELSE "warn",
               escaped |-> FALSE]
    /\ IF ok
       THEN logMessage("info", "Using platform default path")
       ELSE logMessage("warn", "Could not determine platform, using fallback path")
    /\ UNCHANGED contentVars
    /\ UNCHANGED <<sync, syncQ, changeQ, badge, notifications, timers, notifQ, dl>>

\* the callbacks of the badge reads (service-worker load and session start)
BadgeCallback(ok) ==
    /\ ran = Idle
    /\ syncQ # <<>>
    /\ Head(syncQ).kind = "badge"
    /\ syncQ' = Tail(syncQ)
    /\ badge' = IF ok
                THEN BadgeText(NotFalse(Pick(sync, {"silentDownloads"}), "silentDownloads"))
                ELSE badge
    /\ ran' = [kind |-> "badge", escaped |-> ~ok]
    /\ UNCHANGED contentVars
    /\ UNCHANGED <<defaultDownloadPath, sync, changeQ, errorLogs, localQ, logCalls,
                   notifications, timers, notifQ, infer, dl>>

\* chrome.storage.onChanged listener
StorageOnChanged ==
    /\ ran = Idle
    /\ changeQ # <<>>
    /\ changeQ' = Tail(changeQ)
    /\ badge' = BadgeText(Head(changeQ).newValue)
    /\ UNCHANGED contentVars
    /\ UNCHANGED <<defaultDownloadPath, sync, syncQ, errorLogs, localQ, logCalls,
                   notifications, timers, notifQ, infer, dl, ran>>

\* ------------------------------------------------------------------------
\* Messages: getSettings, saveSettings
\* ------------------------------------------------------------------------
\* onMessage, action getSettings: issue the read, keep the channel open
OnMessageGetSettings ==
    /\ ran = Idle
    /\ Len(syncQ) < MaxPending
    /\ syncQ' = Append(syncQ, [kind |-> "getSettings", expect |-> NoKeys, fresh |-> TRUE,
                               open |-> KeepsChannelOpen("getSettings")])
    /\ UNCHANGED contentVars
    /\ UNCHANGED <<defaultDownloadPath, sync, changeQ, badge, errorLogs, localQ, logCalls,
                   notifications, timers, notifQ, infer, dl, ran>>

\* the callback of the getSettings read
GetSettingsCallback(ok) ==
    /\ ran = Idle
    /\ syncQ # <<>>
    /\ Head(syncQ).kind = "getSettings"
    /\ syncQ' = Tail(syncQ)
    /\ LET result == Pick(sync, SettingKeys)
       IN  IF ok
           THEN /\ ran' = [kind |-> "response", action |-> "getSettings", readOk |-> TRUE,
                           body |-> SettingsResponse(result, defaultDownloadPath),
                           expect |-> Head(syncQ).expect, fresh |-> Head(syncQ).fresh,
                           open |-> Head(syncQ).open, responses |-> 1]
                /\ logMessage("info", "Sending settings to UI")
           ELSE /\ ran' = [kind |-> "response", action |-> "getSettings", readOk |-> FALSE,
                           body |-> FallbackResponse(defaultDownloadPath),
                           expect |-> Head(syncQ).expect, fresh |-> Head(syncQ).fresh,
                           open |-> Head(syncQ).open, responses |-> 1]
                /\ logMessage("error", "Error retrieving settings")
    /\ UNCHANGED contentVars
    /\ UNCHANGED <<defaultDownloadPath, sync, changeQ, badge, notifications, timers,
                   notifQ, infer, dl>>

\* onMessage, action saveSettings: issue the write, keep the channel open
OnMessageSaveSettings(request) ==
    /\ ran = Idle
    /\ Len(syncQ) < MaxPending
    /\ syncQ' = Append(syncQ, [kind |-> "saveSettings", request |-> request,
                               open |-> KeepsChannelOpen("saveSettings")])
    /\ UNCHANGED contentVars
    /\ UNCHANGED <<defaultDownloadPath, sync, changeQ, badge, errorLogs, localQ, logCalls,
                   notifications, timers, notifQ, infer, dl, ran>>

\* the callback of the saveSettings write
SaveSettingsCallback(ok) ==
    /\ ran = Idle
    /\ syncQ # <<>>
    /\ Head(syncQ).kind = "saveSettings"
    /\ syncQ' = Rest(syncQ, ok)
    /\ LET request == Head(syncQ).request
       IN  IF ok
           THEN /\ ApplyWrite(settingsToSave(request))
                /\ defaultDownloadPath' = IF TruthyStr(request, "defaultPath")
                                          THEN request["defaultPath"]
                                          ELSE defaultDownloadPath
                /\ ran' = [kind |-> "response", action |-> "saveSettings",
                           request |-> request, writeOk |-> TRUE,
                           body |-> ("success" :> TRUE),
                           open |-> Head(syncQ).open, responses |-> 1]
                /\ logMessage("info", "Settings saved successfully")
           ELSE /\ UNCHANGED <<settingsVars, defaultDownloadPath>>
                /\ ran' = [kind |-> "response", action |-> "saveSettings",
                           request |-> request, writeOk |-> FALSE,
                           body |-> ("success" :> FALSE) @@ ("error" :> TRUE),
                           open |-> Head(syncQ).open, responses |-> 1]
                /\ logMessage("error", "Error saving settings")
    /\ UNCHANGED contentVars
    /\ UNCHANGED <<badge, notifications, timers, notifQ, infer, dl>>

\* the sender's response callback of testSettingsPersistence: on a successful
\* save it sends getSettings, and will compare the answer with what it saved
PersistenceFollowUp ==
    /\ ran.kind = "response"
    /\ ran.action = "saveSettings"
    /\ ran.body["success"]
    /\ Len(syncQ) < MaxPending
    /\ syncQ' = Append(syncQ, [kind |-> "getSettings", expect |-> ran.request,
                               fresh |-> TRUE, open |-> KeepsChannelOpen("getSettings")])
    /\ ran' = Idle
    /\ UNCHANGED contentVars
    /\ UNCHANGED <<defaultDownloadPath, sync, changeQ, badge, errorLogs, localQ, logCalls,
                   notifications, timers, notifQ, infer, dl>>

\* ------------------------------------------------------------------------
\* Messages: getLogs, clearLogs, any other action
\* ------------------------------------------------------------------------
\* onMessage, action getLogs: issue the read of errorLogs, keep the channel open
OnMessageGetLogs ==
    /\ ran = Idle
    /\ Len(localQ) < MaxPending
    /\ localQ' = Append(localQ, [kind |-> "getLogs", open |-> KeepsChannelOpen("getLogs")])
    /\ UNCHANGED contentVars
    /\ UNCHANGED <<defaultDownloadPath, sync, syncQ, changeQ, badge, errorLogs, logCalls,
                   notifications, timers, notifQ, infer, dl, ran>>

\* the callback of the getLogs read: sendResponse({logs: result.errorLogs || []});
\* when the read failed the host passes no result, result.errorLogs throws
\* before sendResponse and the exception leaves the callback
GetLogsCallback(ok) ==
    /\ ran = Idle
    /\ localQ # <<>>
    /\ Head(localQ).kind = "getLogs"
    /\ localQ' = Tail(localQ)
    /\ ran' = IF ok
              THEN [kind |-> "response", action |-> "getLogs", readOk |-> TRUE,
                    body |-> [logs |-> errorLogs], open |-> Head(localQ).open,
                    responses |-> 1, escaped |-> FALSE]
              ELSE [kind |-> "response", action |-> "getLogs", readOk |-> FALSE,
                    body |-> NoKeys, open |-> Head(localQ).open,
                    responses |-> 0, escaped |-> TRUE]
    /\ UNCHANGED contentVars
    /\ UNCHANGED <<defaultDownloadPath, sync, syncQ, changeQ, badge, errorLogs, logCalls,
                   notifications, timers, notifQ, infer, dl>>

\* onMessage, action clearLogs: issue the write of an empty errorLogs
OnMessageClearLogs ==
    /\ ran = Idle
    /\ Len(localQ) < MaxPending
    /\ localQ' = Append(localQ, [kind |-> "clearLogs",
                                 open |-> KeepsChannelOpen("clearLogs")])
    /\ UNCHANGED contentVars
    /\ UNCHANGED <<defaultDownloadPath, sync, syncQ, changeQ, badge, errorLogs, logCalls,
                   notifications, timers, notifQ, infer, dl, ran>>

\* the callback of the clearLogs write: sendResponse({success: true}),
\* whether or not the write was applied
ClearLogsCallback(ok) ==
    /\ ran = Idle
    /\ localQ # <<>>
    /\ Head(localQ).kind = "clearLogs"
    /\ localQ' = Tail(localQ)
    /\ errorLogs' = IF ok THEN <<>> ELSE errorLogs
    /\ ran' = [kind |-> "response", action |-> "clearLogs", readOk |-> ok,
               body |-> ("success" :> TRUE), open |-> Head(localQ).open,
               responses |-> 1, escaped |-> FALSE]
    /\ UNCHANGED contentVars
    /\ UNCHANGED <<defaultDownloadPath, sync, syncQ, changeQ, badge, logCalls,
                   notifications, timers, notifQ, infer, dl>>

\* onMessage with an action the listener has no branch for: it logs at info,
\* issues nothing, sends nothing and returns undefined
OnMessageOther(action) ==
    /\ ran = Idle
    /\ ran' = [kind |-> "listener", action |-> action,
               open |-> KeepsChannelOpen(action), responses |-> 0]
    /\ logMessage("info", "Received message")
    /\ UNCHANGED contentVars
    /\ UNCHANGED <<defaultDownloadPath, sync, syncQ, changeQ, badge, notifications,
                   timers, notifQ, infer, dl>>

\* ------------------------------------------------------------------------
\* Filename determination
\* ------------------------------------------------------------------------
\* onDeterminingFilename listener: issue the settings read, return true
OnDeterminingFilename(d, item) ==
    /\ ran = Idle
    /\ dl[d].pc = "idle"
    /\ Len(syncQ) < MaxPending
    /\ syncQ' = Append(syncQ, [kind |-> "determine", id |-> d, item |-> item])
    /\ dl' = [dl EXCEPT ![d] = [pc |-> "pending", acked |-> TRUE, nSuggest |-> 0]]
    /\ UNCHANGED contentVars
    /\ UNCHANGED <<defaultDownloadPath, sync, changeQ, badge, errorLogs, localQ, logCalls,
                   notifications, timers, notifQ, infer, ran>>

\* the callback of the settings read of onDeterminingFilename
DeterminingFilenameCallback(ok) ==
    /\ ran = Idle
    /\ syncQ # <<>>
    /\ Head(syncQ).kind = "determine"
    /\ syncQ' = Tail(syncQ)
    /\ LET d == Head(syncQ).id
           item == Head(syncQ).item
           result == IF ok THEN DetermineSettings(sync) ELSE NoKeys
       IN  /\ dl' = [dl EXCEPT ![d] =
                        [pc |-> "done", acked |-> @.acked,
                         nSuggest |-> @.nSuggest
                                      + (IF TrySuggests(ok, result, item) THEN 1 ELSE 0)
                                      + (IF CatchSuggests(ok, result, item) THEN 1 ELSE 0)]]
           /\ ran' = [kind |-> "suggest", id |-> d, readOk |-> ok,
                      result |-> result, item |-> item,
                      threw |-> DetermineThrows(ok, result, item),
                      suggestion |-> DetermineSuggestion(ok, result, item,
                                                         defaultDownloadPath)]
           /\ IF DetermineThrows(ok, result, item)
              THEN logMessage("error", "Error in filename determination")
              ELSE logMessage("info", "Using path")
    /\ UNCHANGED contentVars
    /\ UNCHANGED <<defaultDownloadPath, sync, changeQ, badge, notifications, timers,
                   notifQ, infer>>

\* ------------------------------------------------------------------------
\* Notification sweeps
\* ------------------------------------------------------------------------
\* the host (or the test page) shows a notification
CreateNotification(id) ==
    /\ ran = Idle
    /\ id \notin notifications
    /\ notifications' = notifications \cup {id}
    /\ UNCHANGED contentVars
    /\ UNCHANGED <<defaultDownloadPath, sync, syncQ, changeQ, badge, errorLogs, localQ,
                   logCalls, timers, notifQ, infer, dl, ran>>

\* onCreated listener: issue the settings read
OnCreated ==
    /\ ran = Idle
    /\ Len(syncQ) < MaxPending
    /\ syncQ' = Append(syncQ, [kind |-> "created"])
    /\ UNCHANGED contentVars
    /\ UNCHANGED <<defaultDownloadPath, sync, changeQ, badge, errorLogs, localQ, logCalls,
                   notifications, timers, notifQ, infer, dl, ran>>

\* the callback of the settings read of onCreated
CreatedCallback(ok) ==
    /\ ran = Idle
    /\ syncQ # <<>>
    /\ Head(syncQ).kind = "created"
    /\ syncQ' = Tail(syncQ)
    /\ LET result == SweepSettings(sync)
           starts == ok /\ SweepEnabled(result)
       IN  /\ ran' = [kind |-> "read", event |-> "created", readOk |-> ok,
                      result |-> IF ok THEN result ELSE NoKeys, starts |-> starts]
           /\ IF starts
              THEN /\ Len(notifQ) + Len(timers) < MaxHostOps
                   /\ notifQ' = Append(notifQ, [kind |-> "created", result |-> result])
              ELSE UNCHANGED notifQ
           /\ IF ok
              THEN UNCHANGED logVars
              ELSE logMessage("error", "Error handling download creation")
    /\ UNCHANGED contentVars
    /\ UNCHANGED <<defaultDownloadPath, sync, changeQ, badge, notifications, timers,
                   infer, dl>>

\* the callback of notifications.getAll of the creation sweep
CreatedGetAllCallback(ok) ==
    /\ ran = Idle
    /\ notifQ # <<>>
    /\ Head(notifQ).kind = "created"
    /\ notifQ' = Tail(notifQ)
    /\ LET enumerated == IF ok THEN notifications ELSE {}
           cleared == CreatedSweepClears(enumerated)
       IN  /\ notifications' = notifications \ cleared
           /\ ran' = [kind |-> "sweep", event |-> "created", listed |-> ok,
                      escaped |-> FALSE, result |-> Head(notifQ).result,
                      enumerated |-> enumerated, dismissed |-> cleared]
    /\ UNCHANGED contentVars
    /\ UNCHANGED <<defaultDownloadPath, sync, syncQ, changeQ, badge, errorLogs, localQ,
                   logCalls, timers, infer, dl>>

\* onChanged listener: issue the settings read
OnChanged(delta) ==
    /\ ran = Idle
    /\ Len(syncQ) < MaxPending
    /\ syncQ' = Append(syncQ, [kind |-> "changed", delta |-> delta])
    /\ UNCHANGED contentVars
    /\ UNCHANGED <<defaultDownloadPath, sync, changeQ, badge, errorLogs, localQ, logCalls,
                   notifications, timers, notifQ, infer, dl, ran>>

\* the callback of the settings read of onChanged: start the 500 ms timer
ChangedCallback(ok) ==
    /\ ran = Idle
    /\ syncQ # <<>>
    /\ Head(syncQ).kind = "changed"
    /\ syncQ' = Tail(syncQ)
    /\ LET result == SweepSettings(sync)
           starts == ok /\ SweepEnabled(result) /\ IsComplete(Head(syncQ).delta)
       IN  /\ ran' = [kind |-> "read", event |-> "changed", readOk |-> ok,
                      result |-> IF ok THEN result ELSE NoKeys, starts |-> starts,
                      delta |-> Head(syncQ).delta]
           /\ IF starts
              THEN /\ Len(notifQ) + Len(timers) < MaxHostOps
                   /\ timers' = Append(timers, [kind |-> "changed", result |-> result])
              ELSE UNCHANGED timers
           /\ IF ok
              THEN UNCHANGED logVars
              ELSE logMessage("error", "Error handling download state change")
    /\ UNCHANGED contentVars
    /\ UNCHANGED <<defaultDownloadPath, sync, changeQ, badge, notifications, notifQ,
                   infer, dl>>

\* the 500 ms timer of the completion sweep fires: issue notifications.getAll
CompletionTimerFires ==
    /\ ran = Idle
    /\ timers # <<>>
    /\ timers' = Tail(timers)
    /\ notifQ' = Append(notifQ, [kind |-> "changed", result |-> Head(timers).result])
    /\ UNCHANGED contentVars
    /\ UNCHANGED <<defaultDownloadPath, sync, syncQ, changeQ, badge, errorLogs, localQ,
                   logCalls, notifications, infer, dl, ran>>

\* the callback of notifications.getAll of the completion sweep
ChangedGetAllCallback(ok) ==
    /\ ran = Idle
    /\ notifQ # <<>>
    /\ Head(notifQ).kind = "changed"
    /\ notifQ' = Tail(notifQ)
    /\ LET enumerated == IF ok THEN notifications ELSE {}
           cleared == ChangedSweepClears(enumerated)
       IN  /\ notifications' = notifications \ cleared
           /\ ran' = [kind |-> "sweep", event |-> "changed", listed |-> ok,
                      escaped |-> ~ok, result |-> Head(notifQ).result,
                      enumerated |-> enumerated, dismissed |-> cleared]
    /\ UNCHANGED contentVars
    /\ UNCHANGED <<defaultDownloadPath, sync, syncQ, changeQ, badge, errorLogs, localQ,
                   logCalls, timers, infer, dl>>

\* ------------------------------------------------------------------------
\* content.js: the page
\* ------------------------------------------------------------------------
backgroundVars ==
    <<defaultDownloadPath, sync, syncQ, changeQ, badge, errorLogs, localQ, logCalls,
      notifications, timers, notifQ, infer, dl>>

\* the nodes of the pool a hide pass hides
HidePassTargets == {n \in NodeIds : HidePassHides(NodePool[n])}

\* the longest time an element's age is counted to
AgeCap == HideDelay + TickMs

\* the page in which the script has just run, holding some of the nodes of
\* initial: the style is injected or waits for document.head, the hide pass has
\* run unless the document is still loading, and observe() has returned or thrown
ScriptEvaluated(initial) ==
    /\ page \in {"loading", "ready"}
    /\ dom \in {[e \in present |->
                    [inline |-> page = "ready" /\ e \in HidePassTargets,
                     age |-> 0, observed |-> FALSE]] : present \in SUBSET initial}
    /\ style \in {"waiting", "applied", "dropped"}
    /\ observer \in {"watching", "failed"}
    /\ records = <<>>
    /\ hideTimeout = 0
    /\ pageTimers = {}

\* the element is hidden: by its inline style or by the injected rule
StyleTargets == {n \in NodeIds : StyleHides(NodePool[n])}

Hidden(e) ==
    dom[e].inline \/ (style = "applied" /\ e \in StyleTargets)

\* hideDownloadElements without the pass over downloadSelectors
hideDownloadElements_NotificationsOnly(elements) ==
    [e \in DOMAIN elements |->
        IF /\ NodePool[e].nodeType = 1
           /\ MatchesNotificationSelectors(NodePool[e])
           /\ \E i \in 1..Len(hideKeywords) :
                  includes(toLowerCase(NodePool[e].text), hideKeywords[i])
        THEN [elements[e] EXCEPT !.inline = TRUE]
        ELSE elements[e]]

\* hideDownloadElements: the elements of the document after the pass
hideDownloadElements(elements) ==
    [e \in DOMAIN elements |->
        IF e \in HidePassTargets THEN [elements[e] EXCEPT !.inline = TRUE]
        ELSE elements[e]]

\* injectStyles once document.head is there: the host applies the rule, or
\* drops it when it cannot parse one selector of its list (:has)
InjectStylesRetry(parsed) ==
    /\ ran = Idle
    /\ page # "unloaded"
    /\ style = "waiting"
    /\ style' = IF parsed THEN "applied" ELSE "dropped"
    /\ ran' = [kind |-> "injectStyles"]
    /\ UNCHANGED <<page, dom, observer, records, hideTimeout, pageTimers>>
    /\ UNCHANGED backgroundVars

\* DOMContentLoaded: the initial hide pass
DOMContentLoaded ==
    /\ ran = Idle
    /\ page = "loading"
    /\ page' = "ready"
    /\ dom' = hideDownloadElements(dom)
    /\ ran' = [kind |-> "hidePass", cause |-> "ready"]
    /\ UNCHANGED <<style, observer, records, hideTimeout, pageTimers>>
    /\ UNCHANGED backgroundVars

\* a script of the page adds nodes to the document; the observer, while it
\* watches, queues a record of them
AddNodes(added) ==
    /\ ran = Idle
    /\ added # {}
    /\ Cardinality(added) <= MaxAdded
    /\ Cardinality(DOMAIN dom) + Cardinality(added) <= MaxElements
    /\ added \cap DOMAIN dom = {}
    /\ Len(records) < MaxRecords
    /\ dom' = [e \in DOMAIN dom \cup added |->
                  IF e \in added
                  THEN [inline |-> FALSE, age |-> 0, observed |-> observer = "watching"]
                  ELSE dom[e]]
    /\ records' = IF observer = "watching" THEN Append(records, added) ELSE records
    /\ ran' = [kind |-> "pageScript", added |-> added]
    /\ UNCHANGED <<page, style, observer, hideTimeout, pageTimers>>
    /\ UNCHANGED backgroundVars

\* clearTimeout leaving the timer pending
clearTimeout_LeavesPending(pending, id) == pending

\* clearTimeout(id): the timers still pending
clearTimeout(pending, id) == {t \in pending : t.id # id}

\* the id setTimeout returns: one no pending timer has
FreeTimerIds(pending) == (1..MaxTimers) \ {t.id : t \in pending}

\* the MutationObserver callback, delivered with all the records queued
ObserverCallback ==
    /\ ran = Idle
    /\ records # <<>>
    /\ records' = <<>>
    /\ IF shouldHide(records)
       THEN LET kept == clearTimeout(pageTimers, hideTimeout)
            IN  /\ FreeTimerIds(kept) # {}
                /\ hideTimeout' = CHOOSE id \in FreeTimerIds(kept) :
                                      \A other \in FreeTimerIds(kept) : id <= other
                /\ pageTimers' = kept \cup {[id |-> hideTimeout', left |-> HideDelay]}
       ELSE UNCHANGED <<hideTimeout, pageTimers>>
    /\ ran' = [kind |-> "observer", mutations |-> records]
    /\ UNCHANGED <<page, dom, style, observer>>
    /\ UNCHANGED backgroundVars

\* the time to the next timer, at most one tick
TickLength ==
    CHOOSE d \in 0..TickMs :
        /\ \A t \in pageTimers : d <= t.left
        /\ \A longer \in 0..TickMs : (\A t \in pageTimers : longer <= t.left) => longer <= d

\* time passes while no record is queued and no timer is due: the host runs
\* the observer's callback before any timer, and a timer when its delay is over
Tick ==
    /\ ran = Idle
    /\ page # "unloaded"
    /\ records = <<>>
    /\ \A t \in pageTimers : t.left > 0
    /\ pageTimers' = {[t EXCEPT !.left = t.left - TickLength] : t \in pageTimers}
    /\ dom' = [e \in DOMAIN dom |->
                  IF e \notin HidePassTargets \/ dom[e].inline \/ dom[e].age >= AgeCap
                  THEN dom[e]
                  ELSE [dom[e] EXCEPT !.age = dom[e].age + TickLength]]
    /\ <<pageTimers', dom'>> # <<pageTimers, dom>>
    /\ UNCHANGED <<page, style, observer, records, hideTimeout, ran>>
    /\ UNCHANGED backgroundVars

\* a timer set by the callback runs hideDownloadElements
HideTimerFires ==
    /\ ran = Idle
    /\ page # "unloaded"
    /\ \E t \in pageTimers :
        /\ t.left = 0
        /\ pageTimers' = pageTimers \ {t}
        /\ ran' = [kind |-> "hidePass", cause |-> "timer", id |-> t.id]
    /\ dom' = hideDownloadElements(dom)
    /\ UNCHANGED <<page, style, observer, records, hideTimeout>>
    /\ UNCHANGED backgroundVars

\* cleanup leaving the observer connected
cleanup_KeepsObserving(watcher) == watcher

\* cleanup: observer.disconnect()
cleanup(watcher) == IF watcher = "watching" THEN "disconnected" ELSE watcher

\* the unload event: cleanup runs; disconnect() discards the records queued
Unload ==
    /\ ran = Idle
    /\ page # "unloaded"
    /\ page' = "unloaded"
    /\ observer' = cleanup(observer)
    /\ records' = IF observer' = "watching" THEN records ELSE <<>>
    /\ ran' = [kind |-> "cleanup"]
    /\ UNCHANGED <<dom, style, hideTimeout, pageTimers>>
    /\ UNCHANGED backgroundVars

\* a script of the page calls new Notification(title, options)
ConstructNotification(title, options) ==
    /\ ran = Idle
    /\ page # "unloaded"
    /\ ran' = [kind |-> "construct", title |-> title, options |-> options,
               result |-> NotificationOverride(title, options)]
    /\ UNCHANGED contentVars
    /\ UNCHANGED backgroundVars

\* ------------------------------------------------------------------------
\* Specifications
\* ------------------------------------------------------------------------
Badge ==
    \/ \E ok \in BOOLEAN : BadgeCallback(ok)
    \/ StorageOnChanged

Saving(requests) ==
    \/ \E request \in requests : OnMessageSaveSettings(request)
    \/ \E ok \in BOOLEAN : SaveSettingsCallback(ok)

\* the settings interface: the popup's, the options page's and the tests' messages
NextSettings ==
    \/ Badge \/ ReturnToEventLoop \/ Saving(SettingsRequests)
    \/ OnMessageGetSettings
    \/ \E ok \in BOOLEAN : GetSettingsCallback(ok)
    \/ PersistenceFollowUp

SpecSettings == Init /\ [][NextSettings]_vars

\* filename determination while the settings change
NextDetermine ==
    \/ Badge \/ ReturnToEventLoop \/ Saving(DetermineRequests)
    \/ \E d \in DownloadIds, item \in DownloadItems : OnDeterminingFilename(d, item)
    \/ \E ok \in BOOLEAN : DeterminingFilenameCallback(ok)

SpecDetermine == Init /\ [][NextDetermine]_vars

\* notification sweeps while the settings change
NextSweeps ==
    \/ Badge \/ ReturnToEventLoop \/ Saving(SweepRequests)
    \/ \E id \in SweepNotifIds : CreateNotification(id)
    \/ OnCreated
    \/ \E ok \in BOOLEAN : CreatedCallback(ok)
    \/ \E ok \in BOOLEAN : CreatedGetAllCallback(ok)
    \/ \E delta \in DownloadDeltas : OnChanged(delta)
    \/ \E ok \in BOOLEAN : ChangedCallback(ok)
    \/ CompletionTimerFires
    \/ \E ok \in BOOLEAN : ChangedGetAllCallback(ok)

SpecSweeps == Init /\ [][NextSweeps]_vars

\* the keyword match of the creation sweep over every set of notifications of
\* the pool, from the state an install leaves (defaults stored, badge set)
Installed ==
    /\ defaultDownloadPath = Downloads
    /\ sync = InstallDefaults
    /\ syncQ = <<>>
    /\ changeQ = <<>>
    /\ badge = "ON"
    /\ errorLogs = <<>>
    /\ localQ = <<>>
    /\ logCalls = 0
    /\ notifications = {}
    /\ timers = <<>>
    /\ notifQ = <<>>
    /\ infer = [search |-> 0, platform |-> 0]
    /\ dl = [d \in DownloadIds |-> [pc |-> "idle", acked |-> FALSE, nSuggest |-> 0]]
    /\ ran = Idle

InitMatch == Installed /\ NoPage

NextMatch ==
    \/ ReturnToEventLoop
    \/ \E id \in NotifIds : CreateNotification(id)
    \/ OnCreated
    \/ \E ok \in BOOLEAN : CreatedCallback(ok)
    \/ \E ok \in BOOLEAN : CreatedGetAllCallback(ok)

SpecMatch == InitMatch /\ [][NextMatch]_vars

\* the Log Store as earlier runs of the service worker left it: k entries,
\* oldest first, written before this run (their call numbers are not positive)
StoredLogs(k) ==
    [i \in 1..k |-> [n |-> i - k, level |-> IF i % 2 = 0 THEN "warn" ELSE "error"]]

\* the sizes of the Log Store at the start of a run: one below the cap, at
\* the cap
LogStarts == {LogCap - 1, LogCap}

InitLogs ==
    /\ defaultDownloadPath = <<>>
    /\ sync = InstallDefaults
    /\ syncQ = <<[kind |-> "badge"]>>
    /\ changeQ = <<>>
    /\ badge = ""
    /\ errorLogs \in {StoredLogs(k) : k \in LogStarts}
    /\ localQ = <<>>
    /\ logCalls = 0
    /\ notifications = {}
    /\ timers = <<>>
    /\ notifQ = <<>>
    /\ infer = [search |-> 0, platform |-> 0]
    /\ dl = [d \in DownloadIds |-> [pc |-> "idle", acked |-> FALSE, nSuggest |-> 0]]
    /\ ran = Idle
    /\ NoPage

\* the outcomes of the download search that differ in what is logged: the
\* search fails (error), or finds nothing (info or warn after the platform lookup)
LoggedSearchOutcomes == {o \in SearchOutcomes : o.items = <<>>}

\* callers of logMessage at the three levels (session start and the directory
\* inference) and the callbacks of its storage calls
Logging(reads) ==
    \/ ReturnToEventLoop
    \/ \E ok \in BOOLEAN : BadgeCallback(ok)
    \/ OnStartup
    \/ \E outcome \in LoggedSearchOutcomes : SearchResolved(outcome)
    \/ \E ok \in BOOLEAN : PlatformResolved(ok)
    \/ \E ok \in reads : LogGetCallback(ok)
    \/ LogSetApplied
    \/ OnMessageGetLogs
    \/ \E ok \in BOOLEAN : GetLogsCallback(ok)

\* logging, reading and clearing the Log Store
NextLogs ==
    \/ Logging(BOOLEAN)
    \/ OnMessageClearLogs
    \/ \E ok \in BOOLEAN : ClearLogsCallback(ok)

SpecLogs == InitLogs /\ [][NextLogs]_vars

\* logging from an empty Log Store that nothing clears and whose reads all
\* succeed
NextLogAppend == Logging({TRUE})

SpecLogAppend == Init /\ [][NextLogAppend]_vars

\* install and update events, session starts and the directory inference
\* while the popup saves settings and reads them back
NextInstall ==
    \/ Badge \/ ReturnToEventLoop \/ Saving(PopupRequests)
    \/ OnInstalled
    \/ \E ok \in BOOLEAN : InstallSetCallback(ok)
    \/ OnStartup
    \/ \E outcome \in SearchOutcomes : SearchResolved(outcome)
    \/ \E ok \in BOOLEAN : PlatformResolved(ok)
    \/ OnMessageGetSettings
    \/ \E ok \in BOOLEAN : GetSettingsCallback(ok)

SpecInstall == Init /\ [][NextInstall]_vars

\* the message interface: the four actions and an unknown one
NextMessages ==
    \/ Badge \/ ReturnToEventLoop \/ Saving(InterceptionRequests)
    \/ OnMessageGetSettings
    \/ \E ok \in BOOLEAN : GetSettingsCallback(ok)
    \/ \E ok \in BOOLEAN : LogGetCallback(ok)
    \/ LogSetApplied
    \/ OnMessageGetLogs
    \/ \E ok \in BOOLEAN : GetLogsCallback(ok)
    \/ OnMessageClearLogs
    \/ \E ok \in BOOLEAN : ClearLogsCallback(ok)
    \/ \E action \in OtherActions : OnMessageOther(action)

SpecMessages == Init /\ [][NextMessages]_vars

\* both sweeps with the installed defaults stored (silentDownloads and
\* hideNotifications enabled). Downloads and notifications are events of the
\* host and may never come; what the extension has issued the host completes:
\* a storage read or an enumeration is answered, a timer fires, a callback
\* returns.
NextHiding ==
    \/ ReturnToEventLoop
    \/ \E id \in HidingNotifIds : CreateNotification(id)
    \/ OnCreated
    \/ \E ok \in BOOLEAN : CreatedCallback(ok)
    \/ \E ok \in BOOLEAN : CreatedGetAllCallback(ok)
    \/ \E delta \in DownloadDeltas : OnChanged(delta)
    \/ \E ok \in BOOLEAN : ChangedCallback(ok)
    \/ CompletionTimerFires
    \/ \E ok \in BOOLEAN : ChangedGetAllCallback(ok)

\* a queued callback is a task of the event loop: it is run however many
\* other tasks are run before it (it is disabled only while another runs)
HostCompletes ==
    /\ WF_vars(ReturnToEventLoop)
    /\ SF_vars(\E ok \in BOOLEAN : CreatedCallback(ok))
    /\ SF_vars(\E ok \in BOOLEAN : CreatedGetAllCallback(ok))
    /\ SF_vars(\E ok \in BOOLEAN : ChangedCallback(ok))
    /\ SF_vars(CompletionTimerFires)
    /\ SF_vars(\E ok \in BOOLEAN : ChangedGetAllCallback(ok))

SpecHiding == InitMatch /\ [][NextHiding]_vars /\ HostCompletes

\* the content script in one page, whose scripts add nodes of the given set
Watching(nodes) ==
    \/ ReturnToEventLoop
    \/ \E parsed \in BOOLEAN : InjectStylesRetry(parsed)
    \/ DOMContentLoaded
    \/ \E added \in SUBSET nodes : AddNodes(added)
    \/ ObserverCallback
    \/ Tick
    \/ HideTimerFires
    \/ Unload

\* bursts of mutations: browser download UI, a control that starts a download,
\* a notification and unrelated content
DebounceNodes == {"shelf", "content", "toast", "article"}

InitDebounce == Installed /\ ScriptEvaluated({})

NextDebounce == Watching(DebounceNodes)

SpecDebounce == InitDebounce /\ [][NextDebounce]_vars


\* controls that start a download, among browser download UI
VisibleNodes == {"shelf", "content", "area", "anchor"}

InitVisible == Installed /\ ScriptEvaluated({"content"})

NextVisible == Watching(VisibleNodes)

SpecVisible == InitVisible /\ [][NextVisible]_vars

\* what pages pass to new Notification: titles with and without keywords, in
\* capitals, empty, missing and not a string; options with and without a body
NotificationTitles ==
    {Str(TitleDownloadComplete), Str(TitleMeetingReminder), Str(Lit.textInvoicePdf),
     Str(TitleTaskFinished), Str(MsgAtNoon), Str(<<>>), Undefined, Num(404)}

NotificationOptions ==
    {Undefined, Obj(Undefined), Obj(Str(MsgTestDownload)), Obj(Str(MsgAtNoon)),
     Obj(Str(Lit.textFileSaved)), Obj(Str(<<>>)), Obj(Num(7))}

InitNotify == Installed /\ ScriptEvaluated({})

NextNotify ==
    \/ ReturnToEventLoop
    \/ \E title \in NotificationTitles, options \in NotificationOptions :
           ConstructNotification(title, options)

SpecNotify == InitNotify /\ [][NextNotify]_vars

\* every way an added node classifies or fails to: by class, id, notification
\* class or alert role with text, by its subtree; a notification whose text has
\* no keyword of the callback, a custom element, a text node, unrelated content
ClassifyNodes ==
    {"shelfUpper", "area", "toast", "alert", "wrapper",
     "stale", "reminder", "icon", "item", "article", "text"}

\* a page that has loaded, with the rule applied and the observer watching
InitClassify ==
    /\ Installed
    /\ ScriptEvaluated({})
    /\ page = "ready" /\ style = "applied" /\ observer = "watching"

NextClassify ==
    \/ ReturnToEventLoop
    \/ \E added \in SUBSET ClassifyNodes : AddNodes(added)
    \/ ObserverCallback
    \/ Tick
    \/ HideTimerFires

SpecClassify == InitClassify /\ [][NextClassify]_vars

\* the options page's saves that switch hideDownloadBar and autoStart and ask
\* for another conflict policy, with the settings the listeners read left on
IndependenceRequests ==
    {r \in OptionsRequests :
        /\ r["silentDownloads"] /\ r["hideNotifications"] /\ r["defaultPath"] = <<>>
        /\ r["conflictAction"] = "overwrite"
        /\ r["hideDownloadBar"] # r["autoStart"]}

\* a page that is still loading and holds a download shelf
InitIndependence ==
    /\ Installed
    /\ ScriptEvaluated({"shelf"})
    /\ page = "loading" /\ style = "applied" /\ observer = "watching"
    /\ DOMAIN dom = {"shelf"}

\* downloads, notifications and a page, while the options page saves
NextIndependence ==
    \/ ReturnToEventLoop \/ Saving(IndependenceRequests)
    \/ \E item \in {("filename" :> PathUnix)} : OnDeterminingFilename(1, item)
    \/ \E ok \in BOOLEAN : DeterminingFilenameCallback(ok)
    \/ \E id \in HidingNotifIds : CreateNotification(id)
    \/ OnCreated
    \/ \E ok \in BOOLEAN : CreatedCallback(ok)
    \/ \E ok \in BOOLEAN : CreatedGetAllCallback(ok)
    \/ DOMContentLoaded

SpecIndependence == InitIndependence /\ [][NextIndependence]_vars

\* the popup's saves with silent downloads on: a directory, or none
DirectoryRequests == {r \in PopupRequests : r["silentDownloads"]}

\* the download search fails, finds nothing, or finds /tmp/x/report.pdf
DirectoryOutcomes ==
    {o \in SearchOutcomes : o.items = <<>> \/ o.items = <<("filename" :> PathUnix)>>}

\* the in-memory directory between inference, saves and downloads
NextDirectory ==
    \/ Badge \/ ReturnToEventLoop \/ Saving(DirectoryRequests)
    \/ OnStartup
    \/ \E outcome \in DirectoryOutcomes : SearchResolved(outcome)
    \/ \E ok \in BOOLEAN : PlatformResolved(ok)
    \/ \E item \in {("filename" :> PathUnix)} : OnDeterminingFilename(1, item)
    \/ \E ok \in BOOLEAN : DeterminingFilenameCallback(ok)

SpecDirectory == Init /\ [][NextDirectory]_vars

\* the options page asks for the logs to be cleared after the last logMessage
\* call of the run was issued
ClearLogsAfterLastCall ==
    /\ logCalls = MaxLogCalls
    /\ OnMessageClearLogs

\* logging with storage operations that all succeed, then clearing and
\* reading the Log Store
NextClear ==
    \/ ReturnToEventLoop
    \/ \E ok \in BOOLEAN : BadgeCallback(ok)
    \/ OnStartup
    \/ \E outcome \in LoggedSearchOutcomes : SearchResolved(outcome)
    \/ \E ok \in BOOLEAN : PlatformResolved(ok)
    \/ \E ok \in {TRUE} : LogGetCallback(ok)
    \/ LogSetApplied
    \/ OnMessageGetLogs
    \/ \E ok \in {TRUE} : GetLogsCallback(ok)
    \/ ClearLogsAfterLastCall
    \/ \E ok \in {TRUE} : ClearLogsCallback(ok)

SpecClear == InitLogs /\ [][NextClear]_vars

\* ------------------------------------------------------------------------
\* Properties
\* ------------------------------------------------------------------------
\* obj.key is stored as false / as true
StoredFalse(obj, key) == key \in DOMAIN obj /\ obj[key] = FALSE
StoredTrue(obj, key) == key \in DOMAIN obj /\ obj[key] = TRUE

\* the separator the specification names for a host-suggested path
SeparatorOf(path) == IF \E i \in 1..Len(path) : path[i] = "/" THEN "/" ELSE "\\"

\* the last segment of a host-suggested path: what follows its last separator
LastSegment(path) ==
    LET cuts == {i \in 1..Len(path) : path[i] = SeparatorOf(path)}
        last == IF cuts = {} THEN 0 ELSE CHOOSE i \in cuts : \A j \in cuts : j <= i
    IN  SubSeq(path, last + 1, Len(path))

\* the keyword set of the specification
ClaimKeywords == {KwDownload, KwSave, KwComplete, KwFinish, KwDownloaded, KwFinished}

\* the lower-cased title or message contains a keyword of the specification
DownloadRelated(notification) ==
    \E f \in (DOMAIN notification) \cap {"title", "message"} :
        \E kw \in ClaimKeywords : includes(toLowerCase(notification[f]), kw)

\* C1: a getSettings request sent on the success answer of saveSettings(S),
\* with no other settings write in between, returns for every field S set
\* (conflictAction included) exactly the value S set.
C1_RoundTrip ==
    (ran.kind = "response" /\ ran.action = "getSettings" /\ ran.readOk /\ ran.fresh)
        => \A f \in DOMAIN ran.expect :
               f \in DOMAIN ran.body /\ ran.body[f] = ran.expect[f]

\* C2: with silentDownloads read as true and a non-empty defaultPath read, the
\* suggestion for a download with a host-suggested path is defaultPath, the
\* separator of the host path, the last segment of the host path, with
\* conflict policy uniquify; /tmp/x/report.pdf under MyDownloads gives
\* MyDownloads/report.pdf.
C2_SuggestedTarget ==
    (/\ ran.kind = "suggest" /\ ran.readOk
     /\ StoredTrue(ran.result, "silentDownloads")
     /\ "defaultPath" \in DOMAIN ran.result /\ ran.result["defaultPath"] # <<>>
     /\ "filename" \in DOMAIN ran.item)
        => /\ ran.suggestion.hasFilename
           /\ ran.suggestion.filename =
                  ran.result["defaultPath"] \o <<SeparatorOf(ran.item["filename"])>>
                      \o LastSegment(ran.item["filename"])
           /\ ran.suggestion.conflictAction = "uniquify"
           /\ (ran.item["filename"] = PathUnix /\ ran.result["defaultPath"] = MyDownloads)
                  => ran.suggestion.filename = MyDownloadsReportPdf

\* C2 witness: the suggestion for /tmp/x/report.pdf under MyDownloads was made
C2_Witness ==
    /\ ran.kind = "suggest" /\ ran.readOk
    /\ StoredTrue(ran.result, "silentDownloads")
    /\ "defaultPath" \in DOMAIN ran.result /\ ran.result["defaultPath"] = MyDownloads
    /\ "filename" \in DOMAIN ran.item /\ ran.item["filename"] = PathUnix
    /\ ran.suggestion.filename = MyDownloadsReportPdf

\* C3: with silentDownloads read as false the suggestion is the empty one,
\* whatever defaultPath is stored and whatever the in-memory directory is.
C3_DisabledNoRewrite ==
    (ran.kind = "suggest" /\ ran.readOk /\ StoredFalse(ran.result, "silentDownloads"))
        => ran.suggestion = EmptySuggestion

\* C3 witness: a download with a host path answered while silentDownloads is
\* stored false, a directory is stored and the in-memory directory is set
C3_Witness ==
    /\ ran.kind = "suggest" /\ ran.readOk
    /\ StoredFalse(ran.result, "silentDownloads")
    /\ "defaultPath" \in DOMAIN ran.result /\ ran.result["defaultPath"] = MyDownloads
    /\ defaultDownloadPath # <<>>
    /\ "filename" \in DOMAIN ran.item
    /\ ran.suggestion = EmptySuggestion

\* the settings reads of download d still queued
ReadsQueued(d) ==
    Cardinality({i \in 1..Len(syncQ) : syncQ[i].kind = "determine" /\ syncQ[i].id = d})

\* C4: every filename-determination event is acknowledged (the listener
\* returned true) before any suggestion, one settings read is outstanding
\* until it completes, and once it has completed suggest was called exactly
\* once for that download, with any number of downloads in flight.
C4_AnsweredExactlyOnce ==
    \A d \in DownloadIds :
        /\ dl[d].pc = "idle" => (dl[d].nSuggest = 0 /\ ReadsQueued(d) = 0)
        /\ dl[d].pc = "pending" => (dl[d].acked /\ dl[d].nSuggest = 0 /\ ReadsQueued(d) = 1)
        /\ dl[d].pc = "done" => (dl[d].acked /\ dl[d].nSuggest = 1 /\ ReadsQueued(d) = 0)

\* C4 witness: one download answered after a failed read while another is
\* still in flight
C4_Witness ==
    /\ ran.kind = "suggest" /\ ~ran.readOk
    /\ dl[ran.id].pc = "done" /\ dl[ran.id].nSuggest = 1
    /\ \E d \in DownloadIds : d # ran.id /\ dl[d].pc = "pending"

\* C5: when the settings read fails, or the computation of the target path
\* throws, the download is answered, once, with the empty suggestion.
C5_FailureFallsBack ==
    (ran.kind = "suggest" /\ (~ran.readOk \/ ran.threw))
        => /\ ran.suggestion = EmptySuggestion
           /\ dl[ran.id].pc = "done" /\ dl[ran.id].nSuggest = 1

\* C5 witness: the path computation threw after a successful read of
\* silentDownloads = true
C5_Witness ==
    /\ ran.kind = "suggest" /\ ran.readOk /\ ran.threw
    /\ StoredTrue(ran.result, "silentDownloads")
    /\ ran.suggestion = EmptySuggestion

\* C6: a boolean setting absent from the store is treated as true by every
\* reader; for filename determination: with silentDownloads absent the
\* suggestion is the one made when silentDownloads is stored as true.
C6_AbsentBehavesAsTrue ==
    (ran.kind = "suggest" /\ ran.readOk /\ "silentDownloads" \notin DOMAIN ran.result)
        => ran.suggestion =
               DetermineSuggestion(TRUE, Assign(ran.result, "silentDownloads" :> TRUE),
                                   ran.item, defaultDownloadPath)

\* C7: for each of silentDownloads, hideNotifications, hideDownloadBar and
\* autoStart, if the field is absent from storage the getSettings response
\* carries true for it (never false, never undefined).
C7_AbsentBooleansReadTrue ==
    (ran.kind = "response" /\ ran.action = "getSettings")
        => \A k \in BoolKeys :
               k \notin DOMAIN sync => (k \in DOMAIN ran.body /\ ran.body[k] = TRUE)

\* C7 witness: a successful getSettings while silentDownloads is stored false
\* and the three other booleans are absent
C7_Witness ==
    /\ ran.kind = "response" /\ ran.action = "getSettings" /\ ran.readOk
    /\ StoredFalse(sync, "silentDownloads")
    /\ DOMAIN sync \cap {"hideNotifications", "hideDownloadBar", "autoStart"} = {}
    /\ ran.body["silentDownloads"] = FALSE
    /\ ran.body["hideDownloadBar"] = TRUE

\* C8: a sweep started by a creation event or by a transition to complete
\* dismisses exactly the enumerated notifications whose title or message
\* contains a download-related keyword.
C8_SweepDismissesExactlyMatching ==
    ran.kind = "sweep"
        => ran.dismissed = {id \in ran.enumerated : DownloadRelated(NotifPool[id])}

\* C9: a notification is dismissed only by a sweep whose event read
\* silentDownloads and hideNotifications as enabled; an event whose read
\* finds either stored as false starts no sweep and dismisses nothing.
C9_NoDismissalWhenDisabled ==
    /\ (/\ ran.kind = "read" /\ ran.readOk
        /\ (StoredFalse(ran.result, "silentDownloads")
            \/ StoredFalse(ran.result, "hideNotifications")))
           => ~ran.starts
    /\ \A i \in 1..Len(notifQ) :
           StoredTrue(notifQ[i].result, "silentDownloads")
           /\ ~StoredFalse(notifQ[i].result, "hideNotifications")
    /\ \A i \in 1..Len(timers) :
           StoredTrue(timers[i].result, "silentDownloads")
           /\ ~StoredFalse(timers[i].result, "hideNotifications")
    /\ ran.kind = "sweep"
           => (StoredTrue(ran.result, "silentDownloads")
               /\ ~StoredFalse(ran.result, "hideNotifications"))

\* C9 witness: a creation event read silentDownloads true and
\* hideNotifications false while a download notification was showing
C9_Witness ==
    /\ ran.kind = "read" /\ ran.event = "created" /\ ran.readOk
    /\ StoredTrue(ran.result, "silentDownloads")
    /\ StoredFalse(ran.result, "hideNotifications")
    /\ "n1" \in notifications
    /\ ~ran.starts /\ notifQ = <<>> /\ timers = <<>>

\* C10: the match of the creation sweep is true iff the lower-cased title or
\* message contains a keyword of {download, save, complete, finish,
\* downloaded, finished}: true for 'Download Complete', false for 'Meeting
\* reminder' with a non-matching message, false for a missing or empty title
\* and message.
C10_KeywordMatch ==
    (ran.kind = "sweep" /\ ran.event = "created")
        => /\ \A id \in ran.enumerated :
                  id \in ran.dismissed <=> DownloadRelated(NotifPool[id])
           /\ "n1" \in ran.enumerated => "n1" \in ran.dismissed
           /\ ran.dismissed \cap {"n2", "n5", "n8"} = {}

\* C10 witness: a creation sweep enumerated 'Download Complete', 'Meeting
\* reminder', 'File SAVED' and a notification with no title and no message
C10_Witness ==
    /\ ran.kind = "sweep" /\ ran.event = "created"
    /\ {"n1", "n2", "n3", "n8"} \subseteq ran.enumerated
    /\ {"n1", "n3"} \subseteq ran.dismissed
    /\ ran.dismissed \cap {"n2", "n8"} = {}

\* C11: with silentDownloads and hideNotifications enabled, a notification
\* titled 'Download Complete' that is created while the extension runs is
\* eventually removed from the active notifications, whether or not a
\* download event follows.
C11_CreatedNotificationEventuallyHidden ==
    ("n1" \in notifications /\ SweepEnabled(sync)) ~> ("n1" \notin notifications)

\* the enumerations of the completion sweep queued in q
CompletionEnumerations(q) ==
    Cardinality({i \in 1..Len(q) : q[i].kind = "changed"})

\* C12: a completion sweep is started only by a state-change event whose new
\* state is complete and whose read found both settings enabled; a delta with
\* another state or with no state starts none. Starting one sets exactly one
\* timer, the enumeration is issued only when a timer fires (one per timer),
\* and a started sweep does enumerate.
C12_CompletionSweepOnlyOnComplete ==
    /\ [](ran.kind = "read" /\ ran.event = "changed"
            => /\ ran.starts <=> (/\ ran.readOk
                                  /\ StoredTrue(ran.result, "silentDownloads")
                                  /\ ~StoredFalse(ran.result, "hideNotifications")
                                  /\ "state" \in DOMAIN ran.delta
                                  /\ ran.delta["state"] = "complete")
               /\ ran.starts => Len(timers) >= 1)
    /\ [][Len(timers') > Len(timers)
            => /\ Len(timers') = Len(timers) + 1
               /\ ran'.kind = "read" /\ ran'.event = "changed" /\ ran'.starts
               /\ notifQ' = notifQ]_vars
    /\ [][CompletionEnumerations(notifQ') > CompletionEnumerations(notifQ)
            => /\ CompletionEnumerations(notifQ') = CompletionEnumerations(notifQ) + 1
               /\ Len(timers') = Len(timers) - 1]_vars
    /\ [][ran'.kind = "sweep" /\ ran'.event = "changed" /\ ran' # ran
            => CompletionEnumerations(notifQ') = CompletionEnumerations(notifQ) - 1]_vars
    /\ ((ran.kind = "read" /\ ran.event = "changed" /\ ran.starts)
            ~> (ran.kind = "sweep" /\ ran.event = "changed"))

\* C12 witness: a change to interrupted was read with both settings enabled
\* and started nothing, while a notification was showing
C12_Witness ==
    /\ ran.kind = "read" /\ ran.event = "changed" /\ ran.readOk
    /\ StoredTrue(ran.result, "silentDownloads")
    /\ "state" \in DOMAIN ran.delta /\ ran.delta["state"] = "interrupted"
    /\ ~ran.starts /\ timers = <<>> /\ notifQ = <<>>
    /\ "n1" \in notifications

\* the storage callback of a logMessage call has run in this step: its read
\* is taken off the queue and its write is put on it
LogWriteIssued ==
    /\ localQ # <<>> /\ Head(localQ).kind = "logGet"
    /\ Len(localQ') = Len(localQ) /\ localQ' # localQ

\* C13: the errorLogs list never holds more than 50 entries, in the store or
\* in a write on its way to the store, under any interleaving of logMessage
\* calls and clearLogs requests; the list a logMessage call writes ends with
\* its entry, preceded by the list it read, without the oldest entry (the
\* front) when that list already held 50.
C13_LogStoreCapped ==
    /\ [](/\ Len(errorLogs) <= 50
          /\ \A i \in 1..Len(localQ) :
                 localQ[i].kind = "logSet" => Len(localQ[i].logs) <= 50)
    /\ [][LogWriteIssued
            => LET w == localQ'[Len(localQ')].logs
                   kept == SubSeq(w, 1, Len(w) - 1)
               IN  /\ Len(w) >= 1 /\ w[Len(w)] = Head(localQ).entry
                   /\ kept = IF Len(errorLogs) >= 50
                             THEN SubSeq(errorLogs, 2, Len(errorLogs))
                             ELSE errorLogs]_vars

\* C13 witness: a logMessage call read a full store and its write, on its way
\* to the store, holds 50 entries: the 2nd to 50th stored and the new one
C13_Witness ==
    /\ Len(errorLogs) = 50
    /\ \E i \in 1..Len(localQ) :
           /\ localQ[i].kind = "logSet"
           /\ Len(localQ[i].logs) = 50
           /\ localQ[i].logs[1] = errorLogs[2]
           /\ localQ[i].logs[50].n > 0

\* C14: starting from an empty Log Store, once the warn/error logMessage calls
\* made so far have all finished their storage callbacks, the store holds
\* exactly the min(n, 50) most recent entries in call order, none lost and
\* none duplicated, also when the calls' reads and writes interleave.
C14_AllEntriesRetained ==
    localQ = <<>>
        => /\ Len(errorLogs) = (IF logCalls < 50 THEN logCalls ELSE 50)
           /\ \A i \in 1..Len(errorLogs) :
                  errorLogs[i].n = logCalls - Len(errorLogs) + i

\* C15: every entry stored, or on its way to the store, has level warn or
\* error; the errorLogs list changes only when a write issued by a warn/error
\* logMessage call or by clearLogs is applied; a handler that logs at info
\* issues no Log Store operation and leaves the list as it is.
C15_InfoNeverStored ==
    /\ [](/\ \A i \in 1..Len(errorLogs) : errorLogs[i].level \in {"warn", "error"}
          /\ \A i \in 1..Len(localQ) :
                 /\ localQ[i].kind = "logGet"
                        => localQ[i].entry.level \in {"warn", "error"}
                 /\ localQ[i].kind = "logSet"
                        => \A j \in 1..Len(localQ[i].logs) :
                               localQ[i].logs[j].level \in {"warn", "error"})
    /\ [][errorLogs' # errorLogs
            => /\ localQ # <<>>
               /\ \/ Head(localQ).kind = "logSet" /\ errorLogs' = Head(localQ).logs
                  \/ Head(localQ).kind = "clearLogs" /\ errorLogs' = <<>>]_vars
    /\ [][(ran'.kind = "inference" /\ ran' # ran /\ ran'.level = "info")
            => (localQ' = localQ /\ errorLogs' = errorLogs /\ logCalls' = logCalls)]_vars

\* C15 witness: the directory inference has just logged at info, with a
\* warn/error call's read still queued and the store holding entries
C15_Witness ==
    /\ ran.kind = "inference" /\ ran.level = "info"
    /\ Len(errorLogs) = 50
    /\ \E i \in 1..Len(localQ) : localQ[i].kind = "logGet"

\* C16: once the five settings are stored, their stored values change only as
\* the effect of a saveSettings request that is answered with success:
\* session start, getSettings, the directory inference and a later
\* install/update event leave them as the user saved them.
C16_SettingsChangeOnlyBySave ==
    [][(SettingKeys \subseteq DOMAIN sync
        /\ \E k \in SettingKeys : k \notin DOMAIN sync' \/ sync'[k] # sync[k])
          => /\ ran = Idle /\ ran'.kind = "response" /\ ran'.action = "saveSettings"
             /\ ran'.body["success"]]_vars

\* the search delivered a download with a non-empty filename
FoundFilename(outcome) ==
    /\ outcome.ok /\ Len(outcome.items) >= 1
    /\ "filename" \in DOMAIN outcome.items[1]
    /\ outcome.items[1]["filename"] # <<>>

\* the directory part of a path: what precedes its last separator
DirectoryPart(path) ==
    SubSeq(path, 1, Len(path) - Len(LastSegment(path)) - 1)

\* C17: the directory inference never throws to its caller; it finishes
\* after the search when the search failed or found a download with a
\* non-empty filename, and after the platform lookup otherwise; when it
\* finishes the in-memory default directory is the directory part of that
\* download's path if there is one, and 'Downloads' in every other case.
C17_InferenceLeavesDirectory ==
    ran.kind = "inference"
        => /\ ~ran.escaped
           /\ ran.stage = "search"
                  => /\ ran.finished <=> (~ran.outcome.ok \/ FoundFilename(ran.outcome))
                     /\ ran.finished
                            => defaultDownloadPath =
                                   IF FoundFilename(ran.outcome)
                                   THEN DirectoryPart(ran.outcome.items[1]["filename"])
                                   ELSE Downloads
           /\ ran.stage = "platform"
                  => (ran.finished /\ defaultDownloadPath = Downloads)

\* C17 witness: the inference finished on a recent download at /tmp/x/report.pdf
\* and replaced the directory a save had set
C17_Witness ==
    /\ ran.kind = "inference" /\ ran.stage = "search" /\ ran.finished
    /\ FoundFilename(ran.outcome)
    /\ ran.outcome.items[1]["filename"] = PathUnix
    /\ defaultDownloadPath = <<"/", "t", "m", "p", "/", "x">>
    /\ "defaultPath" \in DOMAIN sync /\ sync["defaultPath"] = MyDownloads

\* the kinds of the storage operations issued for the four message actions
MessageOps == {"getSettings", "saveSettings", "getLogs", "clearLogs"}

\* C18: the listener returns true for getSettings, saveSettings, getLogs and
\* clearLogs, so the channel is open while the storage operation is pending,
\* and when the operation completes sendResponse is called exactly once; a
\* message with any other action issues no operation, gets no response and
\* its channel is not kept open.
C18_ExactlyOneResponse ==
    /\ \A i \in 1..Len(syncQ) : syncQ[i].kind \in MessageOps => syncQ[i].open
    /\ \A i \in 1..Len(localQ) : localQ[i].kind \in MessageOps => localQ[i].open
    /\ (ran.kind = "response" /\ ran.action \in MessageOps)
           => (ran.open /\ ran.responses = 1)
    /\ (ran.kind = "listener" /\ ran.action \notin MessageOps)
           => (~ran.open /\ ran.responses = 0)

\* a settings read or write was rejected in the callback that has just run
SettingsFailure(r) ==
    /\ r.kind = "response"
    /\ \/ r.action = "getSettings" /\ ~r.readOk
       \/ r.action = "saveSettings" /\ ~r.writeOk

\* C19: a rejected settings read is answered with silentDownloads,
\* hideNotifications, hideDownloadBar and autoStart all true plus an error
\* field; a rejected settings write is answered success=false with an error;
\* either way the stored settings, the in-memory default directory and the
\* badge are left as they were.
C19_StoreFailureAnswered ==
    /\ []((ran.kind = "response" /\ ran.action = "getSettings" /\ ~ran.readOk)
            => /\ ran.responses = 1
               /\ "error" \in DOMAIN ran.body
               /\ \A k \in BoolKeys : k \in DOMAIN ran.body /\ ran.body[k] = TRUE)
    /\ []((ran.kind = "response" /\ ran.action = "saveSettings" /\ ~ran.writeOk)
            => /\ ran.responses = 1
               /\ "error" \in DOMAIN ran.body
               /\ "success" \in DOMAIN ran.body /\ ran.body["success"] = FALSE)
    /\ [][(ran = Idle /\ SettingsFailure(ran'))
            => /\ sync' = sync /\ changeQ' = changeQ /\ badge' = badge
               /\ defaultDownloadPath' = defaultDownloadPath]_vars

\* C19 witness: a save naming a directory was rejected after an earlier save
\* had set another in-memory directory and stored silentDownloads = false
C19_Witness ==
    /\ ran.kind = "response" /\ ran.action = "saveSettings" /\ ~ran.writeOk
    /\ "defaultPath" \in DOMAIN ran.request /\ ran.request["defaultPath"] = TestDownloads
    /\ defaultDownloadPath = MyDownloads
    /\ StoredFalse(sync, "silentDownloads")

\* C20: when the enumeration of the active notifications fails in a creation
\* sweep or a completion sweep, the sweep dismisses nothing, nothing is queued
\* to retry it, and no exception leaves the callback.
C20_FailedEnumerationSkipped ==
    (ran.kind = "sweep" /\ ~ran.listed)
        => /\ ran.dismissed = {}
           /\ ~ran.escaped
           /\ notifQ = <<>> /\ timers = <<>>

\* C21: the debounce of the DOM watcher. At most one hide pass is pending at
\* any moment; a callback whose records classify as download-related cancels
\* the pending pass and schedules one HideDelay later; the pass that runs is the
\* one the last such batch scheduled, once its whole delay has passed, and it
\* leaves no pass pending: a burst of batches, each before the delay of the
\* one before it is over, ends in one pass after the last of them.
C21_DebounceCoalesces ==
    [][/\ Cardinality(pageTimers') <= 1
       /\ (ran = Idle /\ ran'.kind = "observer" /\ shouldHide(records))
              => pageTimers' = {[id |-> hideTimeout', left |-> HideDelay]}
       /\ (ran = Idle /\ ran'.kind = "hidePass" /\ ran'.cause = "timer")
              => /\ pageTimers = {[id |-> hideTimeout, left |-> 0]}
                 /\ pageTimers' = {}]_vars

\* a download-related batch has just reset the delay that an earlier one, whose
\* element is in the page for some time and not yet hidden by a pass, had started
C21_Witness ==
    /\ ran.kind = "observer"
    /\ shouldHide(ran.mutations)
    /\ pageTimers = {[id |-> hideTimeout, left |-> HideDelay]}
    /\ \E e \in DOMAIN dom :
           /\ dom[e].observed
           /\ OwnCheck(NodePool[e])
           /\ ~dom[e].inline
           /\ dom[e].age > 0
           /\ dom[e].age < HideDelay

\* the elements of the page that are download UI by downloadSelectors, were
\* added while the observer watched, and are not hidden by a hide pass so far
DownloadUi == {n \in NodeIds : MatchesDownloadSelectors(NodePool[n])}

AwaitingPass ==
    {e \in DOMAIN dom \cap DownloadUi : dom[e].observed /\ ~dom[e].inline}

ExclusionListed(element) ==
    \/ element.tag \in {"a", "button"}
    \/ \E attr \in {element.className, element.id} :
           \E name \in {Lit.strDownloadButton, Lit.strDownloadLink, Lit.strDownloadable} :
               ContainsIgnoringCase(attr, name)

\* the element matches one of the enumerated download UI selectors, or it is a
\* notification, a toast, an alert or a live region
ListedOrNotification(element) ==
    \/ MatchesDownloadSelectors(element)
    \/ MatchesListedRules(element)
    \/ MatchesNotificationSelectors(element)
    \/ ContainsIgnoringCase(element.className, Lit.kwNotification)
    \/ ContainsIgnoringCase(element.className, Lit.kwToast)
    \/ element.live # <<>>

\* C23: an element that the exclusion list makes a download-initiating
\* control, that matches no enumerated download UI selector and is no
\* notification, toast or alert, is hidden by no pass: not by the injected rule,
\* not by the initial hide pass and not by a debounced one.
C23_ControlsStayVisible ==
    \A e \in DOMAIN dom :
        (NodePool[e].nodeType = 1
         /\ ExclusionListed(NodePool[e])
         /\ ~ListedOrNotification(NodePool[e])) => ~Hidden(e)

\* the keywords of the in-page override: the extended list
ExtendedKeywords ==
    {KwDownload, KwDownloaded, Lit.kwDownloading, KwComplete, Lit.kwSaved, KwFinished,
     Lit.kwFile, Lit.kwZip, Lit.kwPdf, Lit.kwExe, Lit.kwDmg}

\* the value is a string that contains a keyword of the extended list,
\* whatever the case of its letters
StringWithKeyword(v) ==
    /\ v.type = "string"
    /\ \E k \in ExtendedKeywords : includes(toLowerCase(v.value), k)

\* C24: the override returns the no-op object, and creates no notification,
\* iff the title or the body of the options is a string with a keyword of the
\* extended list; for every other construction it calls the original
\* constructor once, with the title and the options it was given.
C24_OverrideSuppressesExactlyKeywordStrings ==
    ran.kind = "construct" =>
        LET keyword == \/ StringWithKeyword(ran.title)
                       \/ (ran.options.type = "object" /\ StringWithKeyword(ran.options.body))
        IN  /\ (ran.result.returned = "noop") <=> keyword
            /\ keyword => ran.result.constructed = <<>>
            /\ ~keyword => ran.result.constructed =
                               <<[title |-> ran.title, options |-> ran.options]>>

\* a construction suppressed for its body alone: the title is no string
C24_Witness ==
    /\ ran.kind = "construct"
    /\ ran.title.type = "number"
    /\ ran.options.type = "object"
    /\ StringWithKeyword(ran.options.body)
    /\ ran.result.returned = "noop"

\* the keywords the claim lists for the text of a notification
ClassifyKeywords == {KwDownload, KwDownloaded, KwComplete, Lit.kwSaved}

\* the added node is download-related: an element with download in its class
\* or id, or with a notification or toast class or the role alert and a keyword
\* in its text, or with a descendant that has download in its class or id. The
\* node's own names and text are compared in lower case, as the callback compares
\* them; a descendant's names as the attribute selector does, as they are written
DownloadRelatedNode(node) ==
    /\ node.nodeType = 1
    /\ \/ ContainsIgnoringCase(node.className, KwDownload)
       \/ ContainsIgnoringCase(node.id, KwDownload)
       \/ /\ \/ ContainsIgnoringCase(node.className, Lit.kwNotification)
             \/ ContainsIgnoringCase(node.className, Lit.kwToast)
             \/ node.role = "alert"
          /\ \E k \in ClassifyKeywords : includes(toLowerCase(node.text), k)
       \/ \E i \in 1..Len(node.inner) :
              includes(node.inner[i].className, KwDownload) \/ includes(node.inner[i].id, KwDownload)

DownloadRelatedBatch(mutations) ==
    \E m \in 1..Len(mutations) : \E n \in mutations[m] : DownloadRelatedNode(NodePool[n])

\* C25: the callback schedules a hide pass, a whole delay ahead, iff one of
\* the added nodes of its batch is download-related; for a batch without such a
\* node (one that adds text nodes only, too) it schedules none and leaves the
\* pending pass, if there is one, as it is: not cancelled and not delayed.
C25_SchedulesIffDownloadRelated ==
    [][(ran = Idle /\ ran'.kind = "observer")
          => IF DownloadRelatedBatch(records)
             THEN \E t \in pageTimers' : t.id = hideTimeout' /\ t.left = HideDelay
             ELSE pageTimers' = pageTimers /\ hideTimeout' = hideTimeout]_vars

\* the callback has run for a batch that added a text node with download text
\* and nothing download-related, while a pass was pending with part of its
\* delay over: the pass is still due at the same time
C25_Witness ==
    /\ ran.kind = "observer"
    /\ ~DownloadRelatedBatch(ran.mutations)
    /\ \E m \in 1..Len(ran.mutations) : "text" \in ran.mutations[m]
    /\ \E t \in pageTimers : t.id = hideTimeout /\ t.left > 0 /\ t.left < HideDelay

\* C26: the lifecycle of the watcher. Observation is not started a second
\* time; an observer that watches goes on watching until the page unloads; once
\* the unload cleanup has run no record is queued, the callback does not run
\* and no hide pass is scheduled.
C26_WatcherLifecycle ==
    [][/\ observer' = "watching" => observer = "watching"
       /\ (observer = "watching" /\ page' # "unloaded") => observer' = "watching"
       /\ page = "unloaded"
              => /\ records' = <<>>
                 /\ ran'.kind # "observer"
                 /\ pageTimers' = pageTimers
                 /\ hideTimeout' = hideTimeout]_vars

\* after the cleanup of a watching observer a script of the page has added a
\* download UI element: no record of it is queued
C26_Witness ==
    /\ page = "unloaded"
    /\ observer = "disconnected"
    /\ ran.kind = "pageScript"
    /\ "shelf" \in ran.added
    /\ records = <<>>

\* the settings the claim says nothing but getSettings depends on
IgnoredKeys == {"hideDownloadBar", "autoStart", "conflictAction"}

\* the stores that differ from store in the stored values of those settings
\* only: each of them missing or stored with any of its values
Variants(store) ==
    {Assign(Pick(store, (DOMAIN store) \ IgnoredKeys),
            (IF hb = 0 THEN NoKeys ELSE ("hideDownloadBar" :> (hb = 1))) @@
            (IF au = 0 THEN NoKeys ELSE ("autoStart" :> (au = 1))) @@
            (IF ca = "none" THEN NoKeys ELSE ("conflictAction" :> ca))) :
        hb \in 0..2, au \in 0..2, ca \in ConflictActions \cup {"none"}}

\* C27: what a step suggests for a filename, whether it starts a sweep, which
\* notifications it dismisses and which elements it hides is the same in every
\* run that receives the same events and differs in the stored hideDownloadBar,
\* autoStart and conflictAction only; the hide pass of the content script hides
\* its targets whatever is stored.
C27_IgnoredSettingsInfluenceNothing ==
    [][\A v \in Variants(sync) :
        /\ (ran = Idle /\ ran'.kind = "suggest")
               => ran'.suggestion =
                      DetermineSuggestion(ran'.readOk,
                                          IF ran'.readOk THEN DetermineSettings(v) ELSE NoKeys,
                                          ran'.item, defaultDownloadPath)
        /\ (ran = Idle /\ ran'.kind = "read")
               => ran'.starts = (ran'.readOk /\ SweepEnabled(SweepSettings(v)))
        /\ (ran = Idle /\ ran'.kind = "sweep")
               => /\ ran'.dismissed = CreatedSweepClears(ran'.enumerated)
                  /\ notifications' = notifications \ ran'.dismissed
        /\ (ran = Idle /\ ran'.kind = "hidePass")
               => \A e \in DOMAIN dom :
                      dom'[e].inline = (dom[e].inline \/ e \in HidePassTargets)]_vars

\* with hideDownloadBar stored as false the initial hide pass has hidden the
\* download shelf of the page
C27_Witness ==
    /\ StoredFalse(sync, "hideDownloadBar")
    /\ ran.kind = "hidePass"
    /\ dom["shelf"].inline

\* C28: the in-memory default directory is changed by a step of the
\* directory inference and by the callback of a successful saveSettings with
\* a non-empty defaultPath, which sets it to that path, and by nothing else: a
\* save with an empty defaultPath leaves it at what the last such save set. A
\* silent download for which an empty defaultPath is read is directed to the
\* in-memory directory, which then is the saved directory and not the inferred one.
C28_DirectoryChangesOnlyBySaveOrInference ==
    [][/\ defaultDownloadPath' # defaultDownloadPath
              => \/ ran'.kind = "inference"
                 \/ /\ ran'.kind = "response" /\ ran'.action = "saveSettings"
                    /\ ran'.writeOk
                    /\ "defaultPath" \in DOMAIN ran'.request
                    /\ ran'.request["defaultPath"] # <<>>
                    /\ defaultDownloadPath' = ran'.request["defaultPath"]
       /\ (/\ ran = Idle /\ ran'.kind = "suggest" /\ ran'.readOk
           /\ StoredTrue(ran'.result, "silentDownloads")
           /\ "defaultPath" \in DOMAIN ran'.result /\ ran'.result["defaultPath"] = <<>>
           /\ "filename" \in DOMAIN ran'.item
           /\ defaultDownloadPath # <<>>)
              => ran'.suggestion.filename =
                     defaultDownloadPath \o <<SeparatorOf(ran'.item["filename"])>>
                         \o LastSegment(ran'.item["filename"])]_vars

\* after the directory was inferred, MyDownloads was saved and then an empty
\* defaultPath, a download is directed to MyDownloads
C28_Witness ==
    /\ ran.kind = "suggest" /\ ran.readOk
    /\ StoredTrue(ran.result, "silentDownloads")
    /\ "defaultPath" \in DOMAIN ran.result /\ ran.result["defaultPath"] = <<>>
    /\ defaultDownloadPath = MyDownloads
    /\ ran.suggestion.filename = MyDownloads \o <<"/">> \o PathBare

\* C29: with no logMessage call issued after the clearLogs request, a
\* clearLogs answered with success leaves the Log Store empty, the Log Store
\* once emptied stays empty, also while writes of earlier logMessage calls are
\* pending, and getLogs then returns an empty list.
C29_ClearedLogStaysEmpty ==
    [][/\ (ran'.kind = "response" /\ ran'.action = "clearLogs" /\ ran'.responses = 1
           /\ ran'.body["success"])
              => errorLogs' = <<>>
       /\ errorLogs = <<>> => errorLogs' = <<>>
       /\ (errorLogs = <<>> /\ ran'.kind = "response" /\ ran'.action = "getLogs"
           /\ ran'.responses = 1)
              => ran'.body.logs = <<>>]_vars

\* C30: a successful saveSettings leaves every stored setting the request
\* does not carry as it was, stored or absent: the popup's save (silentDownloads
\* and defaultPath) and the interception test's save (silentDownloads) never
\* change hideNotifications, hideDownloadBar or autoStart.
C30_UnsetFieldsKeepStoredValues ==
    [][(/\ ran'.kind = "response" /\ ran'.action = "saveSettings" /\ ran'.writeOk)
          => \A k \in SettingKeys \ DOMAIN ran'.request :
                 /\ (k \in DOMAIN sync') = (k \in DOMAIN sync)
                 /\ k \in DOMAIN sync => sync'[k] = sync[k]]_vars

\* the popup's save is answered with success while hideNotifications,
\* stored as false by the options page, is still false
C30_Witness ==
    /\ ran.kind = "response" /\ ran.action = "saveSettings" /\ ran.writeOk
    /\ DOMAIN ran.request = {"silentDownloads", "defaultPath"}
    /\ ran.request["defaultPath"] = MyDownloads
    /\ "defaultPath" \in DOMAIN sync /\ sync["defaultPath"] = MyDownloads
    /\ "hideNotifications" \in DOMAIN sync /\ ~sync["hideNotifications"]
    /\ "autoStart" \in DOMAIN sync /\ ~sync["autoStart"]

\* C31: whenever no storage callback and no change notification is pending,
\* the badge text is 'ON' exactly when a getSettings read of the Settings Store
\* reports silentDownloads as true, after any sequence of service-worker load,
\* install, session start and saveSettings events.
C31_BadgeShowsSilentDownloads ==
    (syncQ = <<>> /\ changeQ = <<>>)
        => ((badge = "ON") <=>
                SettingsResponse(Pick(sync, SettingKeys), defaultDownloadPath)["silentDownloads"])

====
